---- MODULE Spec2Model ----
(***************************************************************************)
(* A model of the storage-and-concurrency core of BusTub: the lock manager *)
(* (src/concurrency/lock_manager.cpp) with its deadlock detector, and the  *)
(* buffer pool manager with its LRU-K replacer (src/buffer).               *)
(***************************************************************************)
EXTENDS Integers, Sequences, FiniteSets, TLC

(***************************************************************************)
(* Bounds of the model.                                                    *)
(***************************************************************************)
NumTxns == 3
NumTables == 3
NumRows == 2

PoolSize == 3
ReplacerK == 2
MaxPages == 4
MaxPin == 2
MaxTimestamp == 4
MaxData == 1
MaxCurrSize == 3

Txns == 1..NumTxns
Tables == 1..NumTables
Rows == 1..NumRows

Frames == 0..(PoolSize - 1)
\* The frame ids the replacer is called with: it keys node_store_ by any frame id and
\* never compares one with replacer_size_.
ReplFrames == 0..PoolSize
PageIds == 0..(MaxPages - 1)
PageData == 0..MaxData

INVALID_TXN_ID == -1
INVALID_PAGE_ID == -1

LockModes == {"IS", "IX", "S", "SIX", "X"}
RowModes == {"S", "X"}
IsolationLevels == {"READ_UNCOMMITTED", "READ_COMMITTED", "REPEATABLE_READ"}
AbortReasons == {"LOCK_ON_SHRINKING", "LOCK_SHARED_ON_READ_UNCOMMITTED", "UPGRADE_CONFLICT",
                 "INCOMPATIBLE_UPGRADE", "ATTEMPTED_INTENTION_LOCK_ON_ROW", "TABLE_LOCK_NOT_PRESENT",
                 "TABLE_UNLOCKED_BEFORE_UNLOCKING_ROWS", "ATTEMPTED_UNLOCK_BUT_NO_LOCK_HELD"}

VARIABLES
  txn_state,        \* [Txns -> {"GROWING","SHRINKING","COMMITTED","ABORTED"}]
  iso_level,        \* [Txns -> IsolationLevels]
  table_lock_set,   \* [Txns -> [LockModes -> SUBSET Tables]]: the five table lock sets
  row_lock_set,     \* [Txns -> [RowModes -> [Tables -> SUBSET Rows]]]: the S / X row lock sets
  table_lock_map,   \* [Tables -> queue entry]: table_lock_map_
  row_lock_map,     \* [Rows -> queue entry]: row_lock_map_
  ret,              \* [Txns -> outcome of the transaction's latest lock-manager call]
  call,             \* [Txns -> the call blocked in cv_.wait (its arguments, and whether it
                    \*  took the upgrade branch), or NoCall]
  notified,         \* [Txns -> BOOLEAN]: a notify_all reached the blocked call
  waits_for,        \* the detector's waits_for_ map: a function txn -> set of txns
  detector_pc,      \* position of RunCycleDetection in its pass
  crashed           \* a null LockRequestQueue pointer was dereferenced

lmVars == <<txn_state, iso_level, table_lock_set, row_lock_set, table_lock_map, row_lock_map,
            ret, call, notified, waits_for, detector_pc, crashed>>

VARIABLES
  pages,            \* [Frames -> [page_id, pin_count, is_dirty, data]]: pages_
  page_table,       \* [PageIds -> Frames \cup {NoFrame}]: page_table_
  free_list,        \* sequence of frames, its back last: free_list_
  next_page_id,     \* next_page_id_
  node_store,       \* [Frames -> LRU-K node or NoNode]: the replacer's node_store_
  current_timestamp, \* the replacer's current_timestamp_
  curr_size,        \* the replacer's curr_size_
  disk,             \* [PageIds -> PageData]: the pages on disk
  bpm_ret,          \* value returned by the latest buffer pool call
  evict_ret,        \* result of the latest direct replacer call: the frame of Evict,
                    \* NoFrame for false, NoResult for a call that returns nothing
  guards            \* [GuardIds -> page guard]: the page guard objects of the callers

bpmVars == <<pages, page_table, free_list, next_page_id, node_store, current_timestamp,
             curr_size, disk, bpm_ret, evict_ret, guards>>

VARIABLES
  bt_pages,          \* [page id -> tree page]: the pages of the B+tree that can be fetched
  bt_next_page_id,   \* the page id the next NewPageGuarded of the tree returns
  root_page_id,      \* root_page_id_ of the header page
  leaf_max_size,     \* leaf_max_size_
  internal_max_size, \* internal_max_size_
  bt_ref,            \* the reference map: the same Insert and Remove calls on a plain map
  bt_ret,            \* what the last Insert returned
  reader,            \* a GetValue running in a second thread: [pc, key, page, result, stable]
  threads            \* the page latches of concurrent calls: per thread [op, pc, key,
                     \* want, ws, own, page, parent, rd, split]

btVars == <<bt_pages, bt_next_page_id, root_page_id, leaf_max_size, internal_max_size,
            bt_ref, bt_ret, reader, threads>>

VARIABLE
  scan              \* the sequential scan executor of one transaction:
                    \* [pc, rid, out, blocked, dirty]

(***************************************************************************)
(* Lock request queues.  A map entry is absent, a null shared_ptr (left by *)
(* operator[] on a missing key), or a LockRequestQueue.                    *)
(***************************************************************************)
AbsentQueue == [present |-> "absent", request_queue |-> <<>>, upgrading |-> INVALID_TXN_ID]
NullQueue == [present |-> "null", request_queue |-> <<>>, upgrading |-> INVALID_TXN_ID]
EmptyQueue == [present |-> "queue", request_queue |-> <<>>, upgrading |-> INVALID_TXN_ID]

LockRequest(t, m) == [txn_id |-> t, lock_mode |-> m, granted |-> FALSE]

NoCall == [kind |-> "none", mode |-> "S", oid |-> 0, rid |-> 0, upgrade |-> FALSE]

\* Remove the i-th element of a sequence (std::list::erase).
Erase(s, i) == [j \in 1..(Len(s) - 1) |-> IF j < i THEN s[j] ELSE s[j + 1]]

\* Index of the first request of txn t satisfying "granted or not only_granted", 0 if none.
FindRequest(rq, t, only_granted) ==
  LET hits == {i \in 1..Len(rq) : rq[i].txn_id = t /\ (rq[i].granted \/ ~only_granted)}
  IN IF hits = {} THEN 0 ELSE CHOOSE i \in hits : \A j \in hits : i <= j

(***************************************************************************)
(* Pure helpers of the lock manager.                                       *)
(***************************************************************************)
AreLocksCompatible_Lax(l1, l2) ==
  CASE l1 = "IS" -> l2 \in {"IS", "IX", "S", "SIX"}
    [] l1 = "S" -> l2 \in {"S", "IS", "IX"}
    [] l1 = "SIX" -> l2 = "IS"
    [] l1 = "IX" -> l2 \in {"IX", "IS"}
    [] OTHER -> FALSE

AreLocksCompatible(l1, l2) ==
  CASE l1 = "IS" -> l2 \in {"IS", "IX", "S", "SIX"}
    [] l1 = "S" -> l2 \in {"S", "IS"}
    [] l1 = "SIX" -> l2 = "IS"
    [] l1 = "IX" -> l2 \in {"IX", "IS"}
    [] OTHER -> FALSE

\* Outcome of the admission check: "OK", "FALSE" (plain refusal) or the abort reason thrown.
CanTxnTakeLock_NoShrinkCheck(state, iso, m) ==
  IF state = "ABORTED" THEN "FALSE"
  ELSE IF iso = "READ_UNCOMMITTED" /\ m \in {"IS", "S", "SIX"}
    THEN "LOCK_SHARED_ON_READ_UNCOMMITTED"
  ELSE IF iso = "READ_UNCOMMITTED" /\ state # "GROWING" /\ m \in {"X", "IX"}
    THEN "LOCK_ON_SHRINKING"
  ELSE IF iso = "READ_COMMITTED" /\ state = "SHRINKING" /\ m # "S"
    THEN "LOCK_ON_SHRINKING"
  ELSE IF iso = "REPEATABLE_READ" /\ state = "SHRINKING"
    THEN "LOCK_ON_SHRINKING"
  ELSE "OK"

CanTxnTakeLock(state, iso, m) ==
  IF state = "ABORTED" THEN "FALSE"
  ELSE IF iso = "READ_UNCOMMITTED" /\ m \in {"IS", "S", "SIX"}
    THEN "LOCK_SHARED_ON_READ_UNCOMMITTED"
  ELSE IF iso = "READ_UNCOMMITTED" /\ state # "GROWING" /\ m \in {"X", "IX"}
    THEN "LOCK_ON_SHRINKING"
  ELSE IF iso = "READ_COMMITTED" /\ state = "SHRINKING" /\ m # "S" /\ m # "IS"
    THEN "LOCK_ON_SHRINKING"
  ELSE IF iso = "REPEATABLE_READ" /\ state = "SHRINKING"
    THEN "LOCK_ON_SHRINKING"
  ELSE "OK"

CanLockUpgrade(curr, requested) ==
  CASE curr = "IS" -> requested \in {"IX", "S", "SIX", "X"}
    [] curr \in {"S", "IX"} -> requested \in {"X", "SIX"}
    [] curr = "SIX" -> requested = "X"
    [] OTHER -> FALSE

AreCurrentLockSatisfied(curr, requested) ==
  CASE curr = "IS" -> requested = "IS"
    [] curr = "S" -> requested \in {"IS", "S"}
    [] curr = "IX" -> requested \in {"IX", "IS"}
    [] curr = "SIX" -> requested \in {"IS", "S", "SIX"}
    [] curr = "X" -> requested \in {"IS", "S", "SIX", "X"}
    [] OTHER -> FALSE

\* The new transaction state after a non-forced unlock of a lock of mode m.
ChangeTxnState_SAlways(state, iso, m) ==
  IF state # "GROWING" THEN state
  ELSE IF m = "X" THEN "SHRINKING"
  ELSE IF m = "S" THEN "SHRINKING"
  ELSE state

ChangeTxnState(state, iso, m) ==
  IF state # "GROWING" THEN state
  ELSE IF m = "X" THEN "SHRINKING"
  ELSE IF iso = "REPEATABLE_READ" /\ m = "S" THEN "SHRINKING"
  ELSE state

(***************************************************************************)
(* GetLockRequest: one pass over the queue.  acc.idx is lock_request (the  *)
(* index of the caller's own request, 0 for nullptr), acc.compat is        *)
(* is_compatible, acc.stop records the break.                              *)
(***************************************************************************)
GetLockRequestStep(acc, lq, i, m, t) ==
  IF acc.stop THEN acc
  ELSE IF lq.txn_id = t THEN [acc EXCEPT !.idx = i]
  ELSE LET c == acc.compat /\ ~(~AreLocksCompatible(lq.lock_mode, m) /\ (acc.idx = 0 \/ lq.granted))
       IN [idx |-> acc.idx, compat |-> c, stop |-> (~c /\ acc.idx # 0)]

RECURSIVE GetLockRequestFrom(_, _, _, _, _)
GetLockRequestFrom(rq, i, acc, m, t) ==
  IF i > Len(rq) THEN acc
  ELSE GetLockRequestFrom(rq, i + 1, GetLockRequestStep(acc, rq[i], i, m, t), m, t)

GetLockRequest(rq, m, t) ==
  GetLockRequestFrom(rq, 1, [idx |-> 0, compat |-> TRUE, stop |-> FALSE], m, t)

(***************************************************************************)
(* Condition variables.  A call blocked in cv_.wait runs again once it has *)
(* been notified; notify_all reaches every call blocked on that queue.     *)
(***************************************************************************)
WaitersOn(kind, id) ==
  {u \in Txns : ret[u] = "WAIT" /\ call[u].kind = kind
                /\ (IF kind = "table" THEN call[u].oid ELSE call[u].rid) = id}

NotifyAll_Lost(kind, id) == notified

NotifyAll(kind, id) == [u \in Txns |-> notified[u] \/ u \in WaitersOn(kind, id)]

Idle(t) == ~crashed /\ ret[t] # "WAIT"

\* A call of t throws TransactionAbortException(reason) after SetState(ABORTED).
Throw(t, reason) ==
  /\ txn_state' = [txn_state EXCEPT ![t] = "ABORTED"]
  /\ ret' = [ret EXCEPT ![t] = reason]

\* lock_request->granted_ = true; upgrading_ is cleared when it names the caller.
GrantRequest(q, i, t) ==
  [q EXCEPT !.request_queue[i].granted = TRUE,
            !.upgrading = IF @ = t THEN INVALID_TXN_ID ELSE @]

\* The cleanup of a call that wakes up aborted: erase the caller's request.
RemoveRequest(q, t) ==
  LET i == FindRequest(q.request_queue, t, FALSE)
  IN [q EXCEPT !.request_queue = IF i = 0 THEN @ ELSE Erase(@, i),
               !.upgrading = IF @ = t THEN INVALID_TXN_ID ELSE @]

UpgradePending_Never(q) == FALSE

\* q->upgrading_ != INVALID_TXN_ID
UpgradePending(q) == q.upgrading # INVALID_TXN_ID

(***************************************************************************)
(* LockTable up to the wait loop: what happens to the queue.               *)
(***************************************************************************)
LockTableEnqueue(q, t, m) ==
  LET rq == q.request_queue
      g == GetLockRequest(rq, m, t)
      same == [outcome |-> "HELD", queue |-> q, dropped |-> "none", compat |-> g.compat, idx |-> g.idx]
  IN IF g.idx # 0
     THEN IF rq[g.idx].lock_mode = m /\ rq[g.idx].granted THEN same
          ELSE IF UpgradePending(q) THEN [same EXCEPT !.outcome = "UPGRADE_CONFLICT"]
          ELSE IF CanLockUpgrade(rq[g.idx].lock_mode, m)
            THEN [outcome |-> "QUEUED",
                  queue |-> [q EXCEPT !.upgrading = t,
                                      !.request_queue[g.idx] = LockRequest(t, m)],
                  dropped |-> rq[g.idx].lock_mode, compat |-> g.compat, idx |-> g.idx]
          ELSE [same EXCEPT !.outcome = "INCOMPATIBLE_UPGRADE"]
     ELSE [outcome |-> "QUEUED",
           queue |-> [q EXCEPT !.request_queue = Append(rq, LockRequest(t, m))],
           dropped |-> "none", compat |-> g.compat, idx |-> Len(rq) + 1]

LockTable(t, m, oid) ==
  /\ Idle(t)
  /\ UNCHANGED <<bpmVars, btVars>>
  /\ UNCHANGED <<iso_level, row_lock_set, row_lock_map, waits_for, detector_pc>>
  /\ LET pre == CanTxnTakeLock(txn_state[t], iso_level[t], m)
         q == IF table_lock_map[oid].present = "absent" THEN EmptyQueue ELSE table_lock_map[oid]
         e == LockTableEnqueue(q, t, m)
     IN IF pre = "FALSE"
          THEN /\ ret' = [ret EXCEPT ![t] = "FALSE"]
               /\ UNCHANGED <<txn_state, table_lock_set, table_lock_map, call, notified, crashed>>
        ELSE IF pre # "OK"
          THEN /\ Throw(t, pre)
               /\ UNCHANGED <<table_lock_set, table_lock_map, call, notified, crashed>>
        ELSE IF q.present = "null"
          THEN /\ crashed' = TRUE
               /\ UNCHANGED <<txn_state, table_lock_set, table_lock_map, ret, call, notified>>
        ELSE IF e.outcome = "HELD"
          THEN /\ ret' = [ret EXCEPT ![t] = "TRUE"]
               /\ UNCHANGED <<txn_state, table_lock_set, table_lock_map, call, notified, crashed>>
        ELSE IF e.outcome # "QUEUED"
          THEN /\ Throw(t, e.outcome)
               /\ UNCHANGED <<table_lock_set, table_lock_map, call, notified, crashed>>
        ELSE IF e.compat
          THEN /\ table_lock_map' = [table_lock_map EXCEPT ![oid] = GrantRequest(e.queue, e.idx, t)]
               /\ table_lock_set' = [table_lock_set EXCEPT ![t] =
                    [x \in LockModes |-> IF x = m THEN @[x] \cup {oid}
                                         ELSE IF x = e.dropped THEN @[x] \ {oid} ELSE @[x]]]
               /\ ret' = [ret EXCEPT ![t] = "TRUE"]
               /\ UNCHANGED <<txn_state, call, notified, crashed>>
        ELSE /\ table_lock_map' = [table_lock_map EXCEPT ![oid] = e.queue]
             /\ table_lock_set' = [table_lock_set EXCEPT ![t] =
                  [x \in LockModes |-> IF x = e.dropped THEN @[x] \ {oid} ELSE @[x]]]
             /\ ret' = [ret EXCEPT ![t] = "WAIT"]
             /\ call' = [call EXCEPT ![t] = [kind |-> "table", mode |-> m, oid |-> oid, rid |-> 0,
                                            upgrade |-> (e.dropped # "none")]]
             /\ notified' = [notified EXCEPT ![t] = FALSE]
             /\ UNCHANGED <<txn_state, crashed>>

\* The body of LockTable's wait loop after cv_.wait returns.
LockTableWake(t) ==
  /\ ~crashed /\ ret[t] = "WAIT" /\ call[t].kind = "table" /\ notified[t]
  /\ UNCHANGED <<bpmVars, btVars>>
  /\ UNCHANGED <<iso_level, row_lock_set, row_lock_map, waits_for, detector_pc, crashed>>
  /\ LET m == call[t].mode
         oid == call[t].oid
         q == table_lock_map[oid]
         pre == CanTxnTakeLock(txn_state[t], iso_level[t], m)
         g == GetLockRequest(q.request_queue, m, t)
     IN IF pre = "FALSE"
          THEN /\ table_lock_map' = [table_lock_map EXCEPT ![oid] = RemoveRequest(q, t)]
               /\ ret' = [ret EXCEPT ![t] = "FALSE"]
               /\ call' = [call EXCEPT ![t] = NoCall]
               /\ notified' = [NotifyAll("table", oid) EXCEPT ![t] = FALSE]
               /\ UNCHANGED <<txn_state, table_lock_set>>
        ELSE IF pre # "OK"
          THEN /\ Throw(t, pre)
               /\ call' = [call EXCEPT ![t] = NoCall]
               /\ notified' = [notified EXCEPT ![t] = FALSE]
               /\ UNCHANGED <<table_lock_set, table_lock_map>>
        ELSE IF g.compat
          THEN /\ table_lock_map' = [table_lock_map EXCEPT ![oid] = GrantRequest(q, g.idx, t)]
               /\ table_lock_set' = [table_lock_set EXCEPT ![t][m] = @ \cup {oid}]
               /\ ret' = [ret EXCEPT ![t] = "TRUE"]
               /\ call' = [call EXCEPT ![t] = NoCall]
               /\ notified' = [notified EXCEPT ![t] = FALSE]
               /\ UNCHANGED txn_state
        ELSE /\ notified' = [notified EXCEPT ![t] = FALSE]
             /\ UNCHANGED <<txn_state, table_lock_set, table_lock_map, ret, call>>

HoldsRowLocks_XOnly(t, oid) == row_lock_set[t]["X"][oid] # {}

\* !(*s_row_lock_set)[oid].empty() || !(*x_row_lock_set)[oid].empty()
HoldsRowLocks(t, oid) == row_lock_set[t]["S"][oid] # {} \/ row_lock_set[t]["X"][oid] # {}

UnlockTable(t, oid) ==
  /\ Idle(t)
  /\ UNCHANGED <<bpmVars, btVars, scan>>
  /\ UNCHANGED <<iso_level, row_lock_set, row_lock_map, waits_for, detector_pc, call, crashed>>
  /\ LET q == table_lock_map[oid]
         i == FindRequest(q.request_queue, t, TRUE)
     IN IF q.present # "queue"
          THEN /\ table_lock_map' = [table_lock_map EXCEPT ![oid] = NullQueue]
               /\ Throw(t, "ATTEMPTED_UNLOCK_BUT_NO_LOCK_HELD")
               /\ UNCHANGED <<table_lock_set, notified>>
        ELSE IF i = 0
          THEN /\ Throw(t, "ATTEMPTED_UNLOCK_BUT_NO_LOCK_HELD")
               /\ UNCHANGED <<table_lock_set, table_lock_map, notified>>
        ELSE IF HoldsRowLocks(t, oid)
          THEN /\ Throw(t, "TABLE_UNLOCKED_BEFORE_UNLOCKING_ROWS")
               /\ UNCHANGED <<table_lock_set, table_lock_map, notified>>
        ELSE LET m == q.request_queue[i].lock_mode
                 rest == Erase(q.request_queue, i)
             IN /\ txn_state' = [txn_state EXCEPT ![t] = ChangeTxnState(@, iso_level[t], m)]
                /\ table_lock_map' = [table_lock_map EXCEPT ![oid].request_queue = rest]
                /\ table_lock_set' = [table_lock_set EXCEPT ![t][m] = @ \ {oid}]
                /\ notified' = IF rest # <<>> THEN NotifyAll("table", oid) ELSE notified
                /\ ret' = [ret EXCEPT ![t] = "TRUE"]

(***************************************************************************)
(* Row locks.                                                              *)
(***************************************************************************)
\* "TRUE" / "FALSE", or "NULL" when the map entry of oid is a null queue pointer,
\* which the function dereferences.
CheckAppropriateLockOnTable(t, oid, row_lock_mode) ==
  LET q == table_lock_map[oid]
      i == FindRequest(q.request_queue, t, TRUE)
  IN IF q.present = "absent" THEN "FALSE"
     ELSE IF q.present = "null" THEN "NULL"
     ELSE IF i = 0 THEN "FALSE"
     ELSE IF row_lock_mode = "X"
       THEN (IF q.request_queue[i].lock_mode \in {"IX", "X", "SIX"} THEN "TRUE" ELSE "FALSE")
     ELSE (IF row_lock_mode = "S" THEN "TRUE" ELSE "FALSE")

LockRowEnqueue(q, t, m) ==
  LET rq == q.request_queue
      g == GetLockRequest(rq, m, t)
      same == [outcome |-> "HELD", queue |-> q, dropped |-> "none", compat |-> g.compat, idx |-> g.idx]
  IN IF g.idx # 0
     THEN IF AreCurrentLockSatisfied(rq[g.idx].lock_mode, m) /\ rq[g.idx].granted THEN same
          ELSE IF UpgradePending(q) THEN [same EXCEPT !.outcome = "UPGRADE_CONFLICT"]
          ELSE IF rq[g.idx].lock_mode # m /\ m # "X"
            THEN [same EXCEPT !.outcome = "INCOMPATIBLE_UPGRADE"]
          ELSE [outcome |-> "QUEUED",
                queue |-> [q EXCEPT !.upgrading = t,
                                    !.request_queue[g.idx] = LockRequest(t, m)],
                dropped |-> rq[g.idx].lock_mode, compat |-> g.compat, idx |-> g.idx]
     ELSE [outcome |-> "QUEUED",
           queue |-> [q EXCEPT !.request_queue = Append(rq, LockRequest(t, m))],
           dropped |-> "none", compat |-> g.compat, idx |-> Len(rq) + 1]

\* A lock manager that forgets DeleteTxnRowLockSet.
RowLockSetAfter_KeepOld(ls, add, del, oid, rid) ==
  [x \in RowModes |-> IF x = add THEN [ls[x] EXCEPT ![oid] = @ \cup {rid}] ELSE ls[x]]

\* UpdateTxnRowLockSet / DeleteTxnRowLockSet: only S and X have a row lock set.
RowLockSetAfter(ls, add, del, oid, rid) ==
  [x \in RowModes |->
     IF x = add THEN [ls[x] EXCEPT ![oid] = @ \cup {rid}]
     ELSE IF x = del THEN [ls[x] EXCEPT ![oid] = @ \ {rid}]
     ELSE ls[x]]

LockRow(t, m, oid, rid) ==
  /\ Idle(t)
  /\ UNCHANGED <<bpmVars, btVars>>
  /\ UNCHANGED <<iso_level, table_lock_set, table_lock_map, waits_for, detector_pc>>
  /\ LET pre == CanTxnTakeLock(txn_state[t], iso_level[t], m)
         chk == CheckAppropriateLockOnTable(t, oid, m)
         q == IF row_lock_map[rid].present = "absent" THEN EmptyQueue ELSE row_lock_map[rid]
         e == LockRowEnqueue(q, t, m)
     IN IF pre = "FALSE"
          THEN /\ ret' = [ret EXCEPT ![t] = "FALSE"]
               /\ UNCHANGED <<txn_state, row_lock_set, row_lock_map, call, notified, crashed>>
        ELSE IF pre # "OK"
          THEN /\ Throw(t, pre)
               /\ UNCHANGED <<row_lock_set, row_lock_map, call, notified, crashed>>
        ELSE IF m \in {"IS", "SIX", "IX"}
          THEN /\ Throw(t, "ATTEMPTED_INTENTION_LOCK_ON_ROW")
               /\ UNCHANGED <<row_lock_set, row_lock_map, call, notified, crashed>>
        ELSE IF chk = "NULL"
          THEN /\ crashed' = TRUE
               /\ UNCHANGED <<txn_state, row_lock_set, row_lock_map, ret, call, notified>>
        ELSE IF chk = "FALSE"
          THEN /\ Throw(t, "TABLE_LOCK_NOT_PRESENT")
               /\ UNCHANGED <<row_lock_set, row_lock_map, call, notified, crashed>>
        ELSE IF q.present = "null"
          THEN /\ crashed' = TRUE
               /\ UNCHANGED <<txn_state, row_lock_set, row_lock_map, ret, call, notified>>
        ELSE IF e.outcome = "HELD"
          THEN /\ ret' = [ret EXCEPT ![t] = "TRUE"]
               /\ row_lock_map' = [row_lock_map EXCEPT ![rid] = q]
               /\ UNCHANGED <<txn_state, row_lock_set, call, notified, crashed>>
        ELSE IF e.outcome # "QUEUED"
          THEN /\ Throw(t, e.outcome)
               /\ row_lock_map' = [row_lock_map EXCEPT ![rid] = q]
               /\ UNCHANGED <<row_lock_set, call, notified, crashed>>
        ELSE IF e.compat
          THEN /\ row_lock_map' = [row_lock_map EXCEPT ![rid] = GrantRequest(e.queue, e.idx, t)]
               /\ row_lock_set' = [row_lock_set EXCEPT ![t] = RowLockSetAfter(@, m, e.dropped, oid, rid)]
               /\ ret' = [ret EXCEPT ![t] = "TRUE"]
               /\ UNCHANGED <<txn_state, call, notified, crashed>>
        ELSE /\ row_lock_map' = [row_lock_map EXCEPT ![rid] = e.queue]
             /\ row_lock_set' = [row_lock_set EXCEPT ![t] = RowLockSetAfter(@, "none", e.dropped, oid, rid)]
             /\ ret' = [ret EXCEPT ![t] = "WAIT"]
             /\ call' = [call EXCEPT ![t] = [kind |-> "row", mode |-> m, oid |-> oid, rid |-> rid,
                                            upgrade |-> (e.dropped # "none")]]
             /\ notified' = [notified EXCEPT ![t] = FALSE]
             /\ UNCHANGED <<txn_state, crashed>>

\* The body of LockRow's wait loop after cv_.wait returns.
LockRowWake(t) ==
  /\ ~crashed /\ ret[t] = "WAIT" /\ call[t].kind = "row" /\ notified[t]
  /\ UNCHANGED <<bpmVars, btVars>>
  /\ UNCHANGED <<iso_level, table_lock_set, table_lock_map, waits_for, detector_pc, crashed>>
  /\ LET m == call[t].mode
         oid == call[t].oid
         rid == call[t].rid
         q == row_lock_map[rid]
         pre == CanTxnTakeLock(txn_state[t], iso_level[t], m)
         g == GetLockRequest(q.request_queue, m, t)
     IN IF pre = "FALSE"
          THEN /\ row_lock_map' = [row_lock_map EXCEPT ![rid] = RemoveRequest(q, t)]
               /\ ret' = [ret EXCEPT ![t] = "FALSE"]
               /\ call' = [call EXCEPT ![t] = NoCall]
               /\ notified' = [NotifyAll("row", rid) EXCEPT ![t] = FALSE]
               /\ UNCHANGED <<txn_state, row_lock_set>>
        ELSE IF pre # "OK"
          THEN /\ Throw(t, pre)
               /\ call' = [call EXCEPT ![t] = NoCall]
               /\ notified' = [notified EXCEPT ![t] = FALSE]
               /\ UNCHANGED <<row_lock_set, row_lock_map>>
        ELSE IF g.compat
          THEN /\ row_lock_map' = [row_lock_map EXCEPT ![rid] = GrantRequest(q, g.idx, t)]
               /\ row_lock_set' = [row_lock_set EXCEPT ![t] = RowLockSetAfter(@, m, "none", oid, rid)]
               /\ ret' = [ret EXCEPT ![t] = "TRUE"]
               /\ call' = [call EXCEPT ![t] = NoCall]
               /\ notified' = [notified EXCEPT ![t] = FALSE]
               /\ UNCHANGED txn_state
        ELSE /\ notified' = [notified EXCEPT ![t] = FALSE]
             /\ UNCHANGED <<txn_state, row_lock_set, row_lock_map, ret, call>>

UnlockRow(t, oid, rid, force) ==
  /\ Idle(t)
  /\ UNCHANGED <<bpmVars, btVars>>
  /\ UNCHANGED <<iso_level, table_lock_set, table_lock_map, waits_for, detector_pc, call>>
  /\ LET q == row_lock_map[rid]
         i == FindRequest(q.request_queue, t, TRUE)
     IN IF q.present # "queue"
          THEN /\ row_lock_map' = [row_lock_map EXCEPT ![rid] = NullQueue]
               /\ Throw(t, "ATTEMPTED_UNLOCK_BUT_NO_LOCK_HELD")
               /\ UNCHANGED <<row_lock_set, notified, crashed>>
        ELSE IF i = 0
          THEN IF ~force
                 THEN /\ Throw(t, "ATTEMPTED_UNLOCK_BUT_NO_LOCK_HELD")
                      /\ UNCHANGED <<row_lock_set, row_lock_map, notified, crashed>>
                 ELSE /\ ret' = [ret EXCEPT ![t] = "TRUE"]
                      /\ UNCHANGED <<txn_state, row_lock_set, row_lock_map, notified, crashed>>
        ELSE LET m == q.request_queue[i].lock_mode
                 chk == CheckAppropriateLockOnTable(t, oid, m)
                 rest == Erase(q.request_queue, i)
             IN IF chk = "NULL"
                  THEN /\ crashed' = TRUE
                       /\ UNCHANGED <<txn_state, row_lock_set, row_lock_map, ret, notified>>
                ELSE IF ~force /\ chk = "FALSE"
                  THEN /\ Throw(t, "TABLE_LOCK_NOT_PRESENT")
                       /\ UNCHANGED <<row_lock_set, row_lock_map, notified, crashed>>
                ELSE /\ txn_state' = [txn_state EXCEPT ![t] =
                          IF force THEN @ ELSE ChangeTxnState(@, iso_level[t], m)]
                     /\ row_lock_map' = [row_lock_map EXCEPT ![rid].request_queue = rest]
                     /\ row_lock_set' = [row_lock_set EXCEPT ![t] = RowLockSetAfter(@, "none", m, oid, rid)]
                     /\ notified' = IF rest # <<>> THEN NotifyAll("row", rid) ELSE notified
                     /\ ret' = [ret EXCEPT ![t] = "TRUE"]
                     /\ UNCHANGED crashed

\* cv_.wait may return without a notification.
SpuriousWakeup(t) ==
  /\ ~crashed /\ ret[t] = "WAIT" /\ ~notified[t]
  /\ UNCHANGED <<bpmVars, btVars, scan>>
  /\ notified' = [notified EXCEPT ![t] = TRUE]
  /\ UNCHANGED <<txn_state, iso_level, table_lock_set, row_lock_set, table_lock_map, row_lock_map,
                 ret, call, waits_for, detector_pc, crashed>>

(***************************************************************************)
(* Deadlock detection.  waits_for is a function whose domain is the key    *)
(* set of the waits_for_ map.                                              *)
(***************************************************************************)
EmptyGraph == [k \in {} |-> {}]

PutKey(g, k, v) == [x \in (DOMAIN g) \cup {k} |-> IF x = k THEN v ELSE g[x]]

DropKey(g, k) == [x \in (DOMAIN g) \ {k} |-> g[x]]

\* One queue of BuildGraph: `seen` is the local set waits_for of the requests passed so
\* far.  The table loop assigns the set to the key, the row loop inserts its members.
RECURSIVE BuildGraphQueue(_, _, _, _, _)
BuildGraphQueue(rq, i, seen, g, assign) ==
  IF i > Len(rq) THEN g
  ELSE LET r == rq[i]
           g2 == IF r.granted THEN g
                 ELSE IF assign THEN PutKey(g, r.txn_id, seen)
                 ELSE IF seen = {} THEN g
                 ELSE PutKey(g, r.txn_id, (IF r.txn_id \in DOMAIN g THEN g[r.txn_id] ELSE {}) \cup seen)
       IN IF txn_state[r.txn_id] = "ABORTED"
          THEN BuildGraphQueue(rq, i + 1, seen, g, assign)
          ELSE BuildGraphQueue(rq, i + 1, seen \cup {r.txn_id}, g2, assign)

RECURSIVE BuildGraphMap(_, _, _, _, _)
BuildGraphMap(map, ids, k, g, assign) ==
  IF k \notin ids THEN g
  ELSE BuildGraphMap(map, ids, k + 1,
                     IF map[k].present = "queue"
                       THEN BuildGraphQueue(map[k].request_queue, 1, {}, g, assign) ELSE g,
                     assign)

\* The queues whose cv_ BuildGraph notifies: those holding a request of an aborted txn.
AbortedIn(map, ids) ==
  {k \in ids : \E i \in 1..Len(map[k].request_queue) :
                 txn_state[map[k].request_queue[i].txn_id] = "ABORTED"}

BuildGraphTables ==
  /\ ~crashed /\ detector_pc = "sleep"
  /\ UNCHANGED <<bpmVars, btVars, scan>>
  /\ waits_for' = BuildGraphMap(table_lock_map, Tables, 1, EmptyGraph, TRUE)
  /\ notified' = [u \in Txns |-> notified[u]
                    \/ \E k \in AbortedIn(table_lock_map, Tables) : u \in WaitersOn("table", k)]
  /\ detector_pc' = "rows"
  /\ UNCHANGED <<txn_state, iso_level, table_lock_set, row_lock_set, table_lock_map, row_lock_map,
                 ret, call, crashed>>

BuildGraphRows ==
  /\ ~crashed /\ detector_pc = "rows"
  /\ UNCHANGED <<bpmVars, btVars, scan>>
  /\ waits_for' = BuildGraphMap(row_lock_map, Rows, 1, waits_for, FALSE)
  /\ notified' = [u \in Txns |-> notified[u]
                    \/ \E k \in AbortedIn(row_lock_map, Rows) : u \in WaitersOn("row", k)]
  /\ detector_pc' = "detect"
  /\ UNCHANGED <<txn_state, iso_level, table_lock_set, row_lock_set, table_lock_map, row_lock_map,
                 ret, call, crashed>>

SetMin(S) == CHOOSE x \in S : \A y \in S : x <= y

SetMax(S) == CHOOSE x \in S : \A y \in S : x >= y

\* HasCycle: d is the ordered work set, visited the processed txns; reading
\* waits_for_[cur] inserts the key cur.
RECURSIVE HasCycleLoop(_, _, _)
HasCycleLoop(g, d, visited) ==
  IF d = {} THEN [found |-> FALSE, txn_id |-> INVALID_TXN_ID, graph |-> g]
  ELSE LET cur == SetMin(d)
           g2 == IF cur \in DOMAIN g THEN g ELSE PutKey(g, cur, {})
       IN IF g2[cur] \cap visited # {}
          THEN [found |-> TRUE, txn_id |-> cur, graph |-> g2]
          ELSE HasCycleLoop(g2, (d \ {cur}) \cup g2[cur], visited \cup {cur})

HasCycle_Blind(g) == [found |-> FALSE, txn_id |-> INVALID_TXN_ID, graph |-> g]

HasCycle(g) == HasCycleLoop(g, DOMAIN g, {})

\* One turn of the loop `while (HasCycle(&abort_txn_id))` of RunCycleDetection.  The
\* map is next touched by the waits_for_.clear() that opens the following BuildGraph;
\* the pass that finds no cycle performs that clear() here, before the sleep.
DetectCycle ==
  /\ ~crashed /\ detector_pc = "detect"
  /\ UNCHANGED <<bpmVars, btVars, scan>>
  /\ LET h == HasCycle(waits_for)
     IN IF h.found
          THEN /\ txn_state' = [txn_state EXCEPT ![h.txn_id] = "ABORTED"]
               /\ waits_for' = DropKey(h.graph, h.txn_id)
               /\ detector_pc' = "detect"
          ELSE /\ waits_for' = EmptyGraph
               /\ detector_pc' = "sleep"
               /\ UNCHANGED txn_state
  /\ UNCHANGED <<iso_level, table_lock_set, row_lock_set, table_lock_map, row_lock_map,
                 ret, call, notified, crashed>>

(***************************************************************************)
(* The LRU-K replacer.  Its operations are functions of the record         *)
(* [node_store, current_timestamp, curr_size]; history has its front (the  *)
(* latest access) first and its back (the oldest retained access) last.    *)
(***************************************************************************)
NoNode == [present |-> FALSE, history |-> <<>>, is_evictable |-> FALSE]

Replacer == [node_store |-> node_store, current_timestamp |-> current_timestamp,
             curr_size |-> curr_size]

Back(s) == s[Len(s)]

\* A size_t value as a pair ordered like the unsigned number: a difference below zero
\* wraps to the top of the range, and size_t(-1) is the difference -1.
SizeT(v) == IF v >= 0 THEN <<0, v>> ELSE <<1, v>>

SizeTLess(a, b) == a[1] < b[1] \/ (a[1] = b[1] /\ a[2] < b[2])

\* distance_ of Evict for the node of frame f.
Distance(r, f) ==
  IF Len(r.node_store[f].history) = ReplacerK
  THEN SizeT(r.current_timestamp - Back(r.node_store[f].history))
  ELSE SizeT(-1)

\* The test that makes a node the new candidate, against the candidate (distance,
\* last_visit_time) found so far.
Replaces_Nearest(d1, t1, d0, t0) == SizeTLess(d1, d0) \/ (d1 = d0 /\ t1 < t0)

Replaces(d1, t1, d0, t0) == SizeTLess(d0, d1) \/ (d1 = d0 /\ t1 < t0)

\* The frames Evict can return: the loop starts from (0, 0) and keeps a node that
\* Replaces the candidate, so it ends on an evictable node that replaces (0, 0) and
\* that no such node replaces; which of several equal ones depends on the iteration
\* order of the unordered_map.
EvictChoices_Any(r) == {f \in DOMAIN r.node_store : r.node_store[f].present}

EvictChoices(r) ==
  LET cand == {f \in DOMAIN r.node_store :
                 /\ r.node_store[f].present /\ r.node_store[f].is_evictable
                 /\ Replaces(Distance(r, f), Back(r.node_store[f].history), SizeT(0), 0)}
  IN {f \in cand : \A g \in cand :
        ~Replaces(Distance(r, g), Back(r.node_store[g].history),
                  Distance(r, f), Back(r.node_store[f].history))}

\* The replacer after Evict returned frame f.
EvictFrame(r, f) ==
  [r EXCEPT !.node_store[f] = NoNode, !.curr_size = @ - 1]

RecordAccess(r, f) ==
  LET h == <<r.current_timestamp>> \o r.node_store[f].history
  IN IF r.node_store[f].present
       THEN [r EXCEPT !.node_store[f].history =
                         IF Len(h) > ReplacerK THEN SubSeq(h, 1, Len(h) - 1) ELSE h,
                      !.current_timestamp = @ + 1]
       ELSE [r EXCEPT !.node_store[f] = [present |-> TRUE, history |-> <<r.current_timestamp>>,
                                         is_evictable |-> FALSE],
                      !.current_timestamp = @ + 1]

SetEvictable_Deaf(r, f, set_evictable) ==
  IF r.node_store[f].present /\ ~r.node_store[f].is_evictable
  THEN [r EXCEPT !.node_store[f].is_evictable = TRUE, !.curr_size = @ + 1]
  ELSE r

SetEvictable(r, f, set_evictable) ==
  IF r.node_store[f].present /\ r.node_store[f].is_evictable # set_evictable
  THEN [r EXCEPT !.node_store[f].is_evictable = set_evictable,
                 !.curr_size = IF set_evictable THEN @ + 1 ELSE @ - 1]
  ELSE r

Remove_Keep(r, f) == r

Remove(r, f) ==
  IF r.node_store[f].present /\ r.node_store[f].is_evictable
  THEN [r EXCEPT !.node_store[f] = NoNode, !.current_timestamp = @ - 1]
  ELSE r

(***************************************************************************)
(* The buffer pool manager.  Every operation runs under latch_, so each is *)
(* one step.                                                               *)
(***************************************************************************)
NoFrame == -1
NoResult == -2

\* Bounds of the B+tree: the configured leaf_max_size and internal_max_size, the keys
\* of the callers (positive, and on both sides of the all-zero key), and the pages the
\* buffer pool behind the tree holds.  The Scenario bounds are those of the run that
\* inserts 1..16 and removes 1..8; the Crab bounds those of the concurrent GetValue.
MinLeafMax == 2
MaxLeafMax == 3
MinInternalMax == 3
MaxInternalMax == 4
MaxKey == 5
MaxSignedKey == 4
MaxTreePages == 10
ScenarioKeys == 16
ScenarioMax == 4
ScenarioPages == 30
CrabKeys == 4
CrabLeafMax == 3
CrabPages == 4

\* A page guard: page_ is the frame of the Page it points to, NoFrame for nullptr (bpm_
\* is null exactly when page_ is).  kind is the guard class; latched tells whether the
\* page latch a Read or Write guard asks for has been acquired.
NumGuards == 2
GuardIds == 1..NumGuards
NoGuard ==
  [page_ |-> NoFrame, is_dirty_ |-> FALSE, kind |-> "none", latched |-> FALSE,
   unpinned |-> FALSE]

SetReplacer(r) ==
  /\ node_store' = r.node_store
  /\ current_timestamp' = r.current_timestamp
  /\ curr_size' = r.curr_size

\* disk_manager_->WritePage(page_id, data)
WritePage(d, page_id, data) == IF page_id \in PageIds THEN [d EXCEPT ![page_id] = data] ELSE d

\* The frame NewPage and FetchPage take for a page that is not resident: the back of
\* the free list, or a frame the replacer evicts.  The result is the set of possible
\* [frame, is_old_page, free_list, replacer]; it is empty when Evict fails.
TakeFrame ==
  IF free_list = <<>>
  THEN {[frame |-> f, is_old_page |-> TRUE, free_list |-> free_list,
         replacer |-> EvictFrame(Replacer, f)] : f \in EvictChoices(Replacer)}
  ELSE {[frame |-> Back(free_list), is_old_page |-> FALSE,
         free_list |-> SubSeq(free_list, 1, Len(free_list) - 1), replacer |-> Replacer]}

\* The cleanup of a reused frame: the page table without the old page, and the disk
\* with the old page's bytes when it was dirty.
CleanPageTable_Keep(pt, tf, page_id) == pt

CleanPageTable(pt, tf, page_id) ==
  IF tf.is_old_page /\ pages[tf.frame].page_id # INVALID_PAGE_ID /\ pages[tf.frame].page_id # page_id
  THEN [pt EXCEPT ![pages[tf.frame].page_id] = NoFrame]
  ELSE pt

CleanDisk_Skip(tf) == disk

CleanDisk(tf) ==
  IF tf.is_old_page /\ pages[tf.frame].is_dirty
  THEN WritePage(disk, pages[tf.frame].page_id, pages[tf.frame].data)
  ELSE disk

NewPage ==
  /\ next_page_id < MaxPages /\ current_timestamp < MaxTimestamp
  /\ UNCHANGED <<lmVars, btVars, scan, evict_ret>>
  /\ IF TakeFrame = {}
       THEN /\ bpm_ret' = INVALID_PAGE_ID
            /\ UNCHANGED <<pages, page_table, free_list, next_page_id, node_store,
                           current_timestamp, curr_size, disk>>
       ELSE \E tf \in TakeFrame :
              /\ free_list' = tf.free_list
              /\ next_page_id' = next_page_id + 1
              /\ page_table' = CleanPageTable([page_table EXCEPT ![next_page_id] = tf.frame],
                                              tf, next_page_id)
              /\ SetReplacer(RecordAccess(SetEvictable(tf.replacer, tf.frame, FALSE), tf.frame))
              /\ disk' = CleanDisk(tf)
              /\ pages' = [pages EXCEPT ![tf.frame] =
                             [page_id |-> next_page_id, pin_count |-> 1,
                              is_dirty |-> IF tf.is_old_page THEN FALSE ELSE @.is_dirty,
                              data |-> 0]]
              /\ bpm_ret' = next_page_id

FetchPage(page_id) ==
  /\ UNCHANGED <<lmVars, btVars, scan, evict_ret>>
  /\ IF page_id >= next_page_id
       THEN /\ bpm_ret' = NoFrame
            /\ UNCHANGED <<pages, page_table, free_list, next_page_id, node_store,
                           current_timestamp, curr_size, disk>>
     ELSE IF page_table[page_id] # NoFrame
       THEN LET f == page_table[page_id]
            IN /\ pages[f].pin_count < MaxPin /\ current_timestamp < MaxTimestamp
               /\ pages' = [pages EXCEPT ![f].page_id = page_id, ![f].pin_count = @ + 1]
               /\ SetReplacer(RecordAccess(SetEvictable(Replacer, f, FALSE), f))
               /\ bpm_ret' = f
               /\ UNCHANGED <<page_table, free_list, next_page_id, disk>>
     ELSE IF TakeFrame = {}
       THEN /\ bpm_ret' = NoFrame
            /\ UNCHANGED <<pages, page_table, free_list, next_page_id, node_store,
                           current_timestamp, curr_size, disk>>
     ELSE \E tf \in TakeFrame :
            /\ current_timestamp < MaxTimestamp
            /\ free_list' = tf.free_list
            /\ page_table' = CleanPageTable([page_table EXCEPT ![page_id] = tf.frame], tf, page_id)
            /\ disk' = CleanDisk(tf)
            /\ pages' = [pages EXCEPT ![tf.frame] =
                           [page_id |-> page_id,
                            pin_count |-> (IF tf.is_old_page THEN 0 ELSE @.pin_count) + 1,
                            is_dirty |-> IF tf.is_old_page THEN FALSE ELSE @.is_dirty,
                            data |-> CleanDisk(tf)[page_id]]]
            /\ SetReplacer(RecordAccess(SetEvictable(tf.replacer, tf.frame, FALSE), tf.frame))
            /\ bpm_ret' = tf.frame
            /\ UNCHANGED next_page_id

\* if (is_dirty && !page->is_dirty_) page->is_dirty_ = true
MarkDirty_Overwrite(was_dirty, is_dirty) == is_dirty

MarkDirty(was_dirty, is_dirty) == was_dirty \/ is_dirty

UnpinPage(page_id, is_dirty) ==
  /\ UNCHANGED <<lmVars, btVars, scan, evict_ret>>
  /\ UNCHANGED <<page_table, free_list, next_page_id, disk>>
  /\ IF page_table[page_id] = NoFrame \/ pages[page_table[page_id]].pin_count = 0
       THEN /\ bpm_ret' = 0
            /\ UNCHANGED <<pages, node_store, current_timestamp, curr_size>>
       ELSE LET f == page_table[page_id]
            IN /\ curr_size < MaxCurrSize
               /\ pages' = [pages EXCEPT ![f].pin_count = @ - 1,
                                         ![f].is_dirty = MarkDirty(@, is_dirty)]
               /\ SetReplacer(IF pages[f].pin_count = 1 THEN SetEvictable(Replacer, f, TRUE)
                              ELSE Replacer)
               /\ bpm_ret' = 1

FlushPage(page_id) ==
  /\ UNCHANGED <<lmVars, btVars, scan, evict_ret, guards>>
  /\ UNCHANGED <<page_table, free_list, next_page_id, node_store, current_timestamp, curr_size>>
  /\ IF page_id = INVALID_PAGE_ID \/ page_table[page_id] = NoFrame
       THEN /\ bpm_ret' = 0
            /\ UNCHANGED <<pages, disk>>
       ELSE LET f == page_table[page_id]
            IN /\ disk' = WritePage(disk, pages[f].page_id, pages[f].data)
               /\ pages' = [pages EXCEPT ![f].is_dirty = FALSE]
               /\ bpm_ret' = 1

RECURSIVE FlushFrames(_, _)
FlushFrames(d, i) ==
  IF i = PoolSize THEN d
  ELSE FlushFrames(WritePage(d, pages[i].page_id, pages[i].data), i + 1)

FlushAllPages ==
  /\ UNCHANGED <<lmVars, btVars, scan, evict_ret, guards>>
  /\ UNCHANGED <<page_table, free_list, next_page_id, node_store, current_timestamp, curr_size>>
  /\ disk' = FlushFrames(disk, 0)
  /\ pages' = [f \in Frames |-> [pages[f] EXCEPT !.is_dirty = FALSE]]
  /\ bpm_ret' = 1

DeletePage(page_id) ==
  /\ UNCHANGED <<lmVars, btVars, scan, evict_ret, guards>>
  /\ UNCHANGED next_page_id
  /\ IF page_id = INVALID_PAGE_ID \/ page_table[page_id] = NoFrame
       THEN /\ bpm_ret' = 1
            /\ UNCHANGED <<pages, page_table, free_list, node_store, current_timestamp,
                           curr_size, disk>>
     ELSE IF pages[page_table[page_id]].pin_count # 0
       THEN /\ bpm_ret' = 0
            /\ UNCHANGED <<pages, page_table, free_list, node_store, current_timestamp,
                           curr_size, disk>>
     ELSE LET f == page_table[page_id]
          IN /\ page_table' = [page_table EXCEPT ![page_id] = NoFrame]
             /\ SetReplacer(Remove(Replacer, f))
             /\ free_list' = Append(free_list, f)
             /\ disk' = IF pages[f].is_dirty THEN WritePage(disk, pages[f].page_id, pages[f].data)
                        ELSE disk
             /\ pages' = [pages EXCEPT ![f] = [page_id |-> INVALID_PAGE_ID, pin_count |-> 0,
                                               is_dirty |-> FALSE, data |-> 0]]
             /\ bpm_ret' = 1

\* A holder of a pin on the resident page writes its bytes.
WritePageData(page_id, data) ==
  /\ page_table[page_id] # NoFrame
  /\ pages[page_table[page_id]].pin_count > 0
  /\ pages' = [pages EXCEPT ![page_table[page_id]].data = data]
  /\ UNCHANGED <<lmVars, btVars, scan, evict_ret, guards>>
  /\ UNCHANGED <<page_table, free_list, next_page_id, node_store, current_timestamp,
                 curr_size, disk, bpm_ret>>

InitBufferPool ==
  /\ pages = [f \in Frames |-> [page_id |-> INVALID_PAGE_ID, pin_count |-> 0,
                                is_dirty |-> FALSE, data |-> 0]]
  /\ page_table = [p \in PageIds |-> NoFrame]
  /\ free_list = [i \in 1..PoolSize |-> i - 1]
  /\ next_page_id = 0
  /\ node_store = [f \in ReplFrames |-> NoNode]
  /\ current_timestamp = 0
  /\ curr_size = 0
  /\ disk = [p \in PageIds |-> 0]
  /\ bpm_ret = 0
  /\ evict_ret = NoResult
  /\ guards = [g \in GuardIds |-> NoGuard]

(***************************************************************************)
(* The B+tree before its first call.                                       *)
(***************************************************************************)
\* KeyType{}, the all-zero key of slot 0 of an internal page
SentinelKey == 0

NotFound == [found |-> FALSE, value |-> 0]

\* The threads that call into one tree concurrently.
LatchThreadCount == 3

LatchThreads == 1..LatchThreadCount

\* A thread between two calls: it waits for no page and holds no latch.  ws is
\* ctx.write_set_ (page ids, write-latched), own the write-latched pages its guards
\* outside the write set hold, rd the page its read guard holds.
IdleThread ==
  [op |-> "idle", pc |-> "idle", key |-> SentinelKey, want |-> INVALID_PAGE_ID,
   ws |-> <<>>, own |-> {}, page |-> INVALID_PAGE_ID, parent |-> INVALID_PAGE_ID,
   rd |-> INVALID_PAGE_ID, split |-> FALSE]

\* No GetValue is running in the second thread.
IdleReader ==
  [pc |-> "idle", key |-> SentinelKey, page |-> INVALID_PAGE_ID, result |-> NotFound,
   stable |-> TRUE]

\* BPlusTree::BPlusTree: the header page holds no root page id.
InitBPlusTree(lm, im) ==
  /\ bt_pages = <<>>
  /\ bt_next_page_id = 1
  /\ root_page_id = INVALID_PAGE_ID
  /\ leaf_max_size = lm
  /\ internal_max_size = im
  /\ bt_ref = <<>>
  /\ bt_ret = FALSE
  /\ reader = IdleReader
  /\ threads = [t \in LatchThreads |-> IdleThread]

InitIndex == InitBPlusTree(MinLeafMax, MinInternalMax)

\* The scan executor before Init.
IdleScan == [pc |-> "idle", rid |-> 1, out |-> {}, blocked |-> FALSE, dirty |-> FALSE]

InitExecutor == scan = IdleScan

(***************************************************************************)
(* Initial state and specifications of the lock manager.                   *)
(***************************************************************************)
InitLockManager ==
  /\ txn_state = [t \in Txns |-> "GROWING"]
  /\ table_lock_set = [t \in Txns |-> [m \in LockModes |-> {}]]
  /\ row_lock_set = [t \in Txns |-> [m \in RowModes |-> [o \in Tables |-> {}]]]
  /\ table_lock_map = [o \in Tables |-> AbsentQueue]
  /\ row_lock_map = [r \in Rows |-> AbsentQueue]
  /\ ret = [t \in Txns |-> "NONE"]
  /\ call = [t \in Txns |-> NoCall]
  /\ notified = [t \in Txns |-> FALSE]
  /\ waits_for = EmptyGraph
  /\ detector_pc = "sleep"
  /\ crashed = FALSE

vars == <<lmVars, bpmVars, btVars, scan>>

\* The steps of client t, its inputs drawn from the given sets: table modes TM, row
\* modes RM, tables O, rows R, force flags F.
ClientStep(t, TM, RM, O, R, F) ==
  \/ \E m \in TM, oid \in O : LockTable(t, m, oid) /\ UNCHANGED scan
  \/ \E oid \in O : UnlockTable(t, oid)
  \/ \E m \in RM, oid \in O, rid \in R : LockRow(t, m, oid, rid) /\ UNCHANGED scan
  \/ \E oid \in O, rid \in R, force \in F : UnlockRow(t, oid, rid, force) /\ UNCHANGED scan
  \/ LockTableWake(t) /\ UNCHANGED scan
  \/ LockRowWake(t) /\ UNCHANGED scan
  \/ SpuriousWakeup(t)

\* The steps of client t on tables alone.
TableClientStep(t, TM, O) ==
  \/ \E m \in TM, oid \in O : LockTable(t, m, oid) /\ UNCHANGED scan
  \/ \E oid \in O : UnlockTable(t, oid)
  \/ LockTableWake(t) /\ UNCHANGED scan
  \/ SpuriousWakeup(t)

\* The steps of client t that takes one table mode m and locks rows in X.
RowClientStep(t, m, O, R) ==
  \/ \E oid \in O : LockTable(t, m, oid) /\ UNCHANGED scan
  \/ \E oid \in O : UnlockTable(t, oid)
  \/ \E oid \in O, rid \in R : LockRow(t, "X", oid, rid) /\ UNCHANGED scan
  \/ \E oid \in O, rid \in R : UnlockRow(t, oid, rid, TRUE) /\ UNCHANGED scan
  \/ LockRowWake(t) /\ UNCHANGED scan
  \/ SpuriousWakeup(t)

Detector == BuildGraphTables \/ BuildGraphRows \/ DetectCycle

AllRepeatableRead == iso_level = [t \in Txns |-> "REPEATABLE_READ"]

(***************************************************************************)
(* Spec: two transactions on one table and one of its rows, every lock     *)
(* mode, with the deadlock detector running.                               *)
(***************************************************************************)
Init ==
  InitLockManager /\ AllRepeatableRead /\ InitBufferPool /\ InitIndex /\ InitExecutor

Next == (\E t \in 1..2 : ClientStep(t, LockModes, LockModes, {1}, {1}, BOOLEAN)) \/ Detector

Spec == Init /\ [][Next]_vars

(***************************************************************************)
(* SpecIso: the same clients under every combination of isolation levels,  *)
(* without the detector.                                                   *)
(***************************************************************************)
InitIso ==
  /\ InitLockManager
  /\ InitBufferPool
  /\ InitIndex
  /\ InitExecutor
  /\ iso_level \in [Txns -> IsolationLevels]
  /\ \A t \in Txns : t > 2 => iso_level[t] = "REPEATABLE_READ"

NextIso == \E t \in 1..2 : ClientStep(t, LockModes, LockModes, {1}, {1}, BOOLEAN)

SpecIso == InitIso /\ [][NextIso]_vars

(***************************************************************************)
(* SpecUpgrade: two transactions taking S and X on one table.              *)
(* A notified call runs again and the detector thread keeps running.       *)
(***************************************************************************)
NextUpgrade == (\E t \in 1..2 : TableClientStep(t, {"S", "X"}, {1})) \/ Detector

Fairness ==
  /\ \A t \in Txns : /\ WF_vars(LockTableWake(t) /\ UNCHANGED scan)
                      /\ WF_vars(LockRowWake(t) /\ UNCHANGED scan)
  /\ WF_vars(Detector)

SpecUpgrade == Init /\ [][NextUpgrade]_vars /\ Fairness

(***************************************************************************)
(* SpecDeadlock: two transactions taking IX on a table and X on two rows.  *)
(***************************************************************************)
NextDeadlock == (\E t \in 1..2 : RowClientStep(t, "IX", {1}, Rows)) \/ Detector

SpecDeadlock == Init /\ [][NextDeadlock]_vars /\ Fairness

(***************************************************************************)
(* SpecCycle: every transaction taking X on tables and waiting for them.   *)
(***************************************************************************)
NextCycle ==
  \/ \E t \in Txns :
       \/ \E oid \in Tables : LockTable(t, "X", oid) /\ UNCHANGED scan
       \/ LockTableWake(t) /\ UNCHANGED scan
  \/ Detector

SpecCycle == Init /\ [][NextCycle]_vars

(***************************************************************************)
(* SpecBPM: every buffer pool call on every page id; no caller writes page *)
(* bytes, so every page reads zero.                                        *)
(***************************************************************************)
NextBPM ==
  \/ NewPage /\ UNCHANGED guards
  \/ \E p \in PageIds : FetchPage(p) /\ UNCHANGED guards
  \/ \E p \in PageIds, d \in BOOLEAN : UnpinPage(p, d) /\ UNCHANGED guards
  \/ \E p \in PageIds : FlushPage(p)
  \/ FlushAllPages
  \/ \E p \in PageIds : DeletePage(p)

SpecBPM == Init /\ [][NextBPM]_vars

(***************************************************************************)
(* Claims about the lock manager.                                          *)
(***************************************************************************)
\* The IS/IX/S/SIX/X compatibility matrix, as pairs <<held, requested>>.
MatrixCompatible ==
  {<<"IS", "IS">>, <<"IS", "IX">>, <<"IS", "S">>, <<"IS", "SIX">>,
   <<"IX", "IS">>, <<"IX", "IX">>,
   <<"S", "IS">>, <<"S", "S">>,
   <<"SIX", "IS">>}

GrantsCompatible(rq) ==
  \A i, j \in 1..Len(rq) :
    (i # j /\ rq[i].granted /\ rq[j].granted /\ rq[i].txn_id # rq[j].txn_id)
      => <<rq[i].lock_mode, rq[j].lock_mode>> \in MatrixCompatible

GrantedMode(rq, t) ==
  IF FindRequest(rq, t, TRUE) = 0 THEN "none" ELSE rq[FindRequest(rq, t, TRUE)].lock_mode

\* C1: in every reachable state, on every table queue and every row queue, any two
\* granted requests of different transactions have modes the matrix calls compatible.
C1_GrantedLocksCompatible ==
  /\ \A o \in Tables : GrantsCompatible(table_lock_map[o].request_queue)
  /\ \A r \in Rows : GrantsCompatible(row_lock_map[r].request_queue)

\* Two transactions hold granted locks on the same table (IX and IS) and on the same
\* row (S and S).
C1_Witness ==
  /\ GrantedMode(table_lock_map[1].request_queue, 1) = "IX"
  /\ GrantedMode(table_lock_map[1].request_queue, 2) = "IS"
  /\ GrantedMode(row_lock_map[1].request_queue, 1) = "S"
  /\ GrantedMode(row_lock_map[1].request_queue, 2) = "S"

PendingUpgraders(kind, id) == {u \in WaitersOn(kind, id) : call[u].upgrade}

C2_AtMostOneUpgrader ==
  /\ \A o \in Tables : Cardinality(PendingUpgraders("table", o)) <= 1
  /\ \A r \in Rows : Cardinality(PendingUpgraders("row", r)) <= 1

\* t is admitted for mode m, holds another mode on the queue, and another
\* transaction's upgrade is pending there.
C2_LaterUpgrader(t, m, kind, id, rq) ==
  /\ PendingUpgraders(kind, id) \ {t} # {}
  /\ GrantedMode(rq, t) \notin {"none", m}
  /\ CanTxnTakeLock(txn_state[t], iso_level[t], m) = "OK"

C2_Refused(t) == txn_state'[t] = "ABORTED" /\ ret'[t] = "UPGRADE_CONFLICT"

\* T1 and T2 both hold S on table o and no upgrade is pending.
C2_BothHoldS(o) ==
  /\ \A u \in 1..2 : GrantedMode(table_lock_map[o].request_queue, u) = "S"
  /\ PendingUpgraders("table", o) = {}

C2_WaitsAsUpgrader(t) == ret'[t] = "WAIT" /\ call'[t].upgrade /\ txn_state'[t] = "GROWING"

\* Each conjunct reads "a step from the precondition that misses the outcome is not a
\* step of the call", which is "the call from the precondition has the outcome".
C2_Step ==
  /\ \A o \in Tables : PendingUpgraders("table", o) # {} =>
       \A t \in Txns, m \in LockModes :
         (C2_LaterUpgrader(t, m, "table", o, table_lock_map[o].request_queue) /\ ~C2_Refused(t))
           => ~LockTable(t, m, o)
  /\ \A r \in Rows : PendingUpgraders("row", r) # {} =>
       \A t \in Txns, m \in RowModes, o \in Tables :
         (/\ C2_LaterUpgrader(t, m, "row", r, row_lock_map[r].request_queue)
          /\ CheckAppropriateLockOnTable(t, o, m) = "TRUE"
          /\ ~C2_Refused(t))
           => ~LockRow(t, m, o, r)
  /\ \A o \in Tables : C2_BothHoldS(o) =>
       \A t \in 1..2 :
         (txn_state[t] = "GROWING" /\ ~C2_WaitsAsUpgrader(t)) => ~LockTable(t, "X", o)

\* C2: at most one upgrade is pending per queue; a holder that asks for a different
\* mode while another transaction's upgrade is pending is aborted with UPGRADE_CONFLICT;
\* of T1 and T2 both holding S and asking for X, the first waits and the second is refused.
C2_OneUpgraderPerQueue == [](C2_AtMostOneUpgrader) /\ [][C2_Step]_vars

\* T1 waits as the upgrader from S to X on table 1 and T2, still holding S, was refused.
C2_Witness ==
  /\ PendingUpgraders("table", 1) = {1}
  /\ call[1].mode = "X"
  /\ GrantedMode(table_lock_map[1].request_queue, 2) = "S"
  /\ txn_state[2] = "ABORTED" /\ ret[2] = "UPGRADE_CONFLICT"

WaitingMode(rq, t) ==
  IF FindRequest(rq, t, FALSE) = 0 \/ rq[FindRequest(rq, t, FALSE)].granted
  THEN "none" ELSE rq[FindRequest(rq, t, FALSE)].lock_mode

HasRequest(rq, t) == FindRequest(rq, t, FALSE) # 0

\* T1 holds X on row 1 and waits for X on row 2; T2 holds X on row 2 and waits for
\* X on row 1.
C3_Deadlocked ==
  /\ GrantedMode(row_lock_map[1].request_queue, 1) = "X"
  /\ GrantedMode(row_lock_map[2].request_queue, 2) = "X"
  /\ ret[1] = "WAIT" /\ WaitingMode(row_lock_map[2].request_queue, 1) = "X"
  /\ ret[2] = "WAIT" /\ WaitingMode(row_lock_map[1].request_queue, 2) = "X"

\* T2 is ABORTED, its LockRow call has returned false and its request left the queue.
C3_T2GaveUp ==
  /\ txn_state[2] = "ABORTED"
  /\ ret[2] = "FALSE"
  /\ ~HasRequest(row_lock_map[1].request_queue, 2)

\* T1 waits for X on row 2 and the aborted T2 has no lock on row 2 any more.
C3_T2Released ==
  /\ txn_state[2] = "ABORTED"
  /\ ret[1] = "WAIT" /\ WaitingMode(row_lock_map[2].request_queue, 1) = "X"
  /\ GrantedMode(row_lock_map[2].request_queue, 2) = "none"

C3_T1Granted ==
  /\ GrantedMode(row_lock_map[2].request_queue, 1) = "X"
  /\ ret[1] = "TRUE"
  /\ 2 \in row_lock_set[1]["X"][1]

C3_BothBlocked == ret[1] = "WAIT" /\ ret[2] = "WAIT"

\* C3: from the deadlock of T1 and T2 over two rows, the detector's victim T2 becomes
\* ABORTED and its waiting LockRow returns false; a detector pass never aborts T1; once
\* T2 holds nothing on row 2, the waiting T1 is granted X on it; and T1 and T2 are not
\* both blocked forever.
C3_DeadlockResolved ==
  /\ C3_Deadlocked ~> C3_T2GaveUp
  /\ [][txn_state'[1] # txn_state[1] => ~DetectCycle]_vars
  /\ C3_T2Released ~> C3_T1Granted
  /\ []<>(~C3_BothBlocked)

\* The deadlock just after the detector chose T2: both still wait, T2 is ABORTED.
C3_Witness == C3_Deadlocked /\ txn_state[2] = "ABORTED" /\ txn_state[1] = "GROWING"

\* The transactions reachable from a by one or more edges of g through nodes of S only.
RECURSIVE ReachWithin(_, _, _, _)
ReachWithin(g, S, frontier, seen) ==
  LET next == {b \in S : \E a \in frontier : a \in DOMAIN g /\ b \in g[a]}
  IN IF next \subseteq seen THEN seen ELSE ReachWithin(g, S, next \ seen, seen \cup next)

\* v lies on a cycle of g on which no transaction has a larger id than v.
LargestOnACycle(g, v) == v \in ReachWithin(g, {u \in Txns : u <= v}, {v}, {})

OnACycle(g, v) == v \in ReachWithin(g, Txns, {v}, {})

\* C4: whenever a detector pass over a wait-for graph that has a cycle sets a
\* transaction to ABORTED, that transaction has the largest txn id on a cycle of the graph.
C4_VictimIsLargestOnCycle ==
  [][\A v \in Txns :
       (/\ txn_state[v] # "ABORTED" /\ txn_state'[v] = "ABORTED"
        /\ \E u \in Txns : OnACycle(waits_for, u)
        /\ ~LargestOnACycle(waits_for, v))
         => ~DetectCycle]_vars

\* T1 waits as the upgrader to X on table 1.
C5_T1Upgrading ==
  /\ ret[1] = "WAIT" /\ call[1].kind = "table" /\ call[1].oid = 1 /\ call[1].upgrade
  /\ WaitingMode(table_lock_map[1].request_queue, 1) = "X"

C5_T2HoldsS == GrantedMode(table_lock_map[1].request_queue, 2) = "S"

\* T1's lock set on table 1 reads X and no longer S, and its request is granted in X.
C5_T1HoldsX ==
  /\ GrantedMode(table_lock_map[1].request_queue, 1) = "X"
  /\ ret[1] = "TRUE"
  /\ 1 \in table_lock_set[1]["X"] /\ 1 \notin table_lock_set[1]["S"]

C5_BlocksWhileShared ==
  \A t \in 1..2 : GrantedMode(table_lock_map[1].request_queue, t) = "S" =>
    GrantedMode(table_lock_map[1].request_queue, 3 - t) # "X"

\* T1 and T2 hold S on table 1 and T1 asks for X: it blocks.
C5_Step ==
  (/\ GrantedMode(table_lock_map[1].request_queue, 1) = "S" /\ C5_T2HoldsS
   /\ txn_state[1] = "GROWING"
   /\ ~(ret'[1] = "WAIT" /\ C5_T1Upgrading' /\ C5_T2HoldsS'))
    => ~LockTable(1, "X", 1)

\* C5: with T1 and T2 holding S on a table, T1's request for X blocks and X is never
\* granted to one of them while the other holds S; once T2 holds no lock on the table,
\* the waiting T1 is granted X and its lock set reads X and not S.
C5_UpgradeWaitsForOtherReader ==
  /\ [][C5_Step]_vars
  /\ [](C5_BlocksWhileShared)
  /\ (C5_T1Upgrading /\ GrantedMode(table_lock_map[1].request_queue, 2) = "none") ~> C5_T1HoldsX

\* T2 has released its S while T1 is still waiting for its upgrade.
C5_Witness ==
  /\ C5_T1Upgrading
  /\ GrantedMode(table_lock_map[1].request_queue, 2) = "none"
  /\ txn_state[2] = "SHRINKING"
  /\ notified[1]

\* The outcome of the isolation pre-check for a request by a transaction that is not
\* ABORTED: the abort reason, or "PASS".
C6_Expected(state, iso, m) ==
  CASE iso = "READ_UNCOMMITTED" /\ m \in {"S", "IS", "SIX"} -> "LOCK_SHARED_ON_READ_UNCOMMITTED"
    [] iso = "READ_UNCOMMITTED" /\ m \in {"X", "IX"} /\ state # "GROWING" -> "LOCK_ON_SHRINKING"
    [] iso = "READ_COMMITTED" /\ state = "SHRINKING" /\ m \notin {"S", "IS"} -> "LOCK_ON_SHRINKING"
    [] iso = "REPEATABLE_READ" /\ state = "SHRINKING" -> "LOCK_ON_SHRINKING"
    [] OTHER -> "PASS"

C6_Reasons == {"LOCK_ON_SHRINKING", "LOCK_SHARED_ON_READ_UNCOMMITTED"}

\* The step has the outcome the pre-check prescribes for t asking for mode m.
C6_Outcome(t, m) ==
  LET e == C6_Expected(txn_state[t], iso_level[t], m)
  IN IF e = "PASS"
       THEN ret'[t] \notin C6_Reasons
       ELSE /\ txn_state'[t] = "ABORTED" /\ ret'[t] = e
            /\ table_lock_map' = table_lock_map /\ row_lock_map' = row_lock_map

C6_Step ==
  \A t \in Txns : txn_state[t] # "ABORTED" =>
    \A m \in LockModes : ~C6_Outcome(t, m) =>
      /\ \A o \in Tables : ~LockTable(t, m, o)
      /\ \A o \in Tables, r \in Rows : ~LockRow(t, m, o, r)

\* C6: a LockTable or LockRow call by a transaction that is not ABORTED is rejected by
\* the isolation pre-check exactly in the listed cases, and then the transaction becomes
\* ABORTED with the listed reason and no queue changes; every other request gets past
\* the pre-check.
C6_IsolationPreCheck == [][C6_Step]_vars

\* T1 (READ_UNCOMMITTED) was refused a shared lock; T2 (READ_COMMITTED) is SHRINKING, has
\* been granted S on the table since and still holds it.
C6_Witness ==
  /\ iso_level[1] = "READ_UNCOMMITTED" /\ ret[1] = "LOCK_SHARED_ON_READ_UNCOMMITTED"
  /\ txn_state[1] = "ABORTED"
  /\ iso_level[2] = "READ_COMMITTED" /\ txn_state[2] = "SHRINKING"
  /\ GrantedMode(table_lock_map[1].request_queue, 2) = "S"
  /\ table_lock_set[2]["X"] = {}

\* t holds a granted table lock on oid that covers a row lock of mode m.
C7_Covered(t, oid, m) ==
  LET g == GrantedMode(table_lock_map[oid].request_queue, t)
  IN IF m = "S" THEN g # "none" ELSE g \in {"IX", "SIX", "X"}

C7_Refused(t) ==
  /\ txn_state'[t] = "ABORTED" /\ ret'[t] = "TABLE_LOCK_NOT_PRESENT"
  /\ row_lock_map' = row_lock_map

C7_Step ==
  \A t \in Txns, m \in RowModes, o \in Tables :
    CanTxnTakeLock(txn_state[t], iso_level[t], m) = "OK" =>
      IF C7_Covered(t, o, m)
        THEN ret'[t] = "TABLE_LOCK_NOT_PRESENT" => \A r \in Rows : ~LockRow(t, m, o, r)
        ELSE ~C7_Refused(t) => \A r \in Rows : ~LockRow(t, m, o, r)

\* C7: an admitted LockRow in mode S goes on only if the transaction holds a granted
\* lock of some mode on the row's table, and in mode X only if it holds IX, SIX or X;
\* otherwise the transaction becomes ABORTED with TABLE_LOCK_NOT_PRESENT and the row
\* queues are unchanged.
C7_RowNeedsTableLock == [][C7_Step]_vars

\* The state after releasing a lock of mode m without force.
C8_Expected(state, iso, m) ==
  IF state = "GROWING" /\ (m = "X" \/ (m = "S" /\ iso = "REPEATABLE_READ"))
  THEN "SHRINKING" ELSE state

\* The step returns true to t and leaves t in another state than releasing m prescribes.
C8_Misses(t, m) ==
  /\ m # "none"
  /\ ret'[t] = "TRUE"
  /\ txn_state'[t] # C8_Expected(txn_state[t], iso_level[t], m)

C8_Step ==
  \A t \in Txns :
    /\ \A o \in Tables :
         C8_Misses(t, GrantedMode(table_lock_map[o].request_queue, t)) => ~UnlockTable(t, o)
    /\ \A r \in Rows :
         C8_Misses(t, GrantedMode(row_lock_map[r].request_queue, t))
           => \A o \in Tables : ~UnlockRow(t, o, r, FALSE)

\* C8: a successful UnlockTable, or UnlockRow without force, moves a GROWING transaction
\* to SHRINKING when the released mode is X, or is S under REPEATABLE_READ, and leaves
\* the transaction state unchanged otherwise.
C8_UnlockShrinks == [][C8_Step]_vars

\* No row was ever locked.  T1 (REPEATABLE_READ) is SHRINKING after releasing its table
\* lock; T2 (READ_COMMITTED) released its table lock and is still GROWING.
C8_Witness ==
  /\ \A r \in Rows : row_lock_map[r].present = "absent"
  /\ \A o \in Tables : table_lock_map[o].request_queue = <<>>
  /\ iso_level[1] = "REPEATABLE_READ" /\ txn_state[1] = "SHRINKING" /\ ret[1] = "TRUE"
  /\ iso_level[2] = "READ_COMMITTED" /\ txn_state[2] = "GROWING" /\ ret[2] = "TRUE"

\* t still has a row of table oid in its S or X row lock set.
C9_HoldsRows(t, oid) == row_lock_set[t]["S"][oid] # {} \/ row_lock_set[t]["X"][oid] # {}

\* The call failed with TABLE_UNLOCKED_BEFORE_UNLOCKING_ROWS and released nothing.
C9_Refused(t) ==
  /\ txn_state'[t] = "ABORTED"
  /\ ret'[t] = "TABLE_UNLOCKED_BEFORE_UNLOCKING_ROWS"
  /\ table_lock_map' = table_lock_map /\ row_lock_map' = row_lock_map
  /\ table_lock_set' = table_lock_set /\ row_lock_set' = row_lock_set

\* C9 as stated: UnlockTable by a transaction that still holds an S or X row lock on
\* the table fails with TABLE_UNLOCKED_BEFORE_UNLOCKING_ROWS, the transaction becomes
\* ABORTED, and no queue and no lock set changes.
C9_UnlockTableWithRowsFails ==
  [][\A t \in Txns, o \in Tables :
       (C9_HoldsRows(t, o) /\ ~C9_Refused(t)) => ~UnlockTable(t, o)]_vars

\* C9 amended: the same for a transaction that also holds a granted lock on the table.
C9_UnlockHeldTableWithRowsFails ==
  [][\A t \in Txns, o \in Tables :
       (/\ C9_HoldsRows(t, o)
        /\ GrantedMode(table_lock_map[o].request_queue, t) # "none"
        /\ ~C9_Refused(t)) => ~UnlockTable(t, o)]_vars

\* T2 was refused the unlock of table 1: it still holds its table lock and a row lock.
C9_Witness ==
  /\ ret[2] = "TABLE_UNLOCKED_BEFORE_UNLOCKING_ROWS" /\ txn_state[2] = "ABORTED"
  /\ GrantedMode(table_lock_map[1].request_queue, 2) # "none"
  /\ GrantedMode(row_lock_map[1].request_queue, 2) # "none"
  /\ C9_HoldsRows(2, 1)

Evictable(f) == node_store[f].present /\ node_store[f].is_evictable

EvictableAfter(f) == node_store'[f].present /\ node_store'[f].is_evictable

C11_PinnedNotEvictable ==
  /\ \A f \in Frames : pages[f].pin_count > 0 => ~Evictable(f)
  /\ free_list = <<>> => \A f \in EvictChoices(Replacer) : pages[f].pin_count = 0

C11_Step ==
  /\ \A f \in Frames :
       (~Evictable(f) /\ EvictableAfter(f))
         => /\ pages[f].pin_count = 1 /\ pages'[f].pin_count = 0
            /\ \E p \in PageIds, d \in BOOLEAN : page_table[p] = f /\ UnpinPage(p, d)
  /\ \A p \in PageIds :
       (page_table[p] # NoFrame /\ EvictableAfter(page_table[p])) => ~FetchPage(p)

\* C11: a frame whose page has pin_count > 0 is never evictable in the replacer and
\* never a frame Evict can hand to NewPage or FetchPage; a frame becomes evictable only
\* in an UnpinPage step that takes its pin count from 1 to 0; and FetchPage of a
\* resident page leaves its frame non-evictable.
C11_PinAccounting == [](C11_PinnedNotEvictable) /\ [][C11_Step]_vars

\* Frame 0 holds a pinned page fetched a second time and is not evictable; frame 1
\* holds an unpinned page and is evictable.
C11_Witness ==
  /\ pages[0].pin_count > 0 /\ Len(node_store[0].history) = 2 /\ ~Evictable(0)
  /\ pages[1].pin_count = 0 /\ Evictable(1)
  /\ free_list = <<>>

(***************************************************************************)
(* C12.  Pool exhaustion.                                                  *)
(***************************************************************************)
AllPinned == free_list = <<>> /\ \A f \in Frames : pages[f].pin_count > 0

BpmUnchanged ==
  UNCHANGED <<pages, page_table, free_list, next_page_id, node_store, current_timestamp,
              curr_size, disk>>

\* The state of the scenario after n NewPage calls on a fresh pool: pages 0..n-1 are
\* resident and pinned once, and the other frames are still on the free list.
C12_Filled(n) ==
  /\ next_page_id = n
  /\ Len(free_list) = PoolSize - n
  /\ \A p \in 0..(n - 1) : page_table[p] # NoFrame /\ pages[page_table[p]].pin_count = 1

\* The scenario after UnpinPage(0, false): page 0 is the only unpinned page.
C12_Released ==
  /\ next_page_id = PoolSize /\ free_list = <<>>
  /\ page_table[0] # NoFrame /\ pages[page_table[0]].pin_count = 0
  /\ \A p \in 1..(PoolSize - 1) : page_table[p] # NoFrame /\ pages[page_table[p]].pin_count = 1

C12_Step ==
  /\ (AllPinned /\ ~(bpm_ret' = INVALID_PAGE_ID /\ BpmUnchanged)) => ~NewPage
  /\ \A n \in 0..(PoolSize - 1) : (C12_Filled(n) /\ bpm_ret' # n) => ~NewPage
  /\ (C12_Released /\ ~(bpm_ret' = PoolSize /\ page_table'[PoolSize] = page_table[0]))
       => ~NewPage

\* C12: with an empty free list and every frame pinned, NewPage returns null, allocates
\* no page id and changes nothing; on a pool of size 3 three NewPage calls return 0, 1
\* and 2, a fourth returns null, and after UnpinPage(0, false) the next NewPage returns
\* 3 in the frame that held page 0.
C12_PoolExhaustion == [][C12_Step]_vars

C12_Witness ==
  /\ C12_Filled(PoolSize) /\ AllPinned
  /\ bpm_ret = INVALID_PAGE_ID

(***************************************************************************)
(* C13.  Eviction preserves data.                                          *)
(***************************************************************************)
\* The buffer pool together with the pin holders that write page bytes.  Only pages
\* 0..MaxWritten are written to; the other pages keep the zero bytes of NewPage.
MaxWritten == 0

NextData ==
  \/ NewPage /\ UNCHANGED guards
  \/ \E p \in PageIds :
       \/ FetchPage(p) /\ UNCHANGED guards
       \/ \E d \in BOOLEAN : UnpinPage(p, d) /\ UNCHANGED guards
       \/ DeletePage(p)
  \/ \E p \in 0..MaxWritten, x \in PageData : WritePageData(p, x)

SpecData == Init /\ [][NextData]_vars

\* The bytes a FetchPage(p) hands out: those of the frame when p is resident, those on
\* disk otherwise.
PageBytes(p) == IF page_table[p] # NoFrame THEN pages[page_table[p]].data ELSE disk[p]
PageBytesAfter(p) == IF page_table'[p] # NoFrame THEN pages'[page_table'[p]].data ELSE disk'[p]

\* The bytes of p are on disk, or the page is marked dirty.
Durable(p) ==
  /\ p < next_page_id
  /\ \/ page_table[p] = NoFrame
     \/ pages[page_table[p]].is_dirty
     \/ pages[page_table[p]].data = disk[p]

C13_Step ==
  /\ \A f \in Frames :
       (pages[f].is_dirty /\ pages'[f].page_id # pages[f].page_id)
         => disk'[pages[f].page_id] = pages[f].data
  /\ \A p \in PageIds :
       (Durable(p) /\ PageBytesAfter(p) # PageBytes(p)) => \E x \in PageData : WritePageData(p, x)
  /\ \A p \in PageIds :
       (page_table[p] = NoFrame /\ page_table'[p] # NoFrame /\ p < next_page_id)
         => bpm_ret' = page_table'[p] /\ pages'[bpm_ret'].data = disk[p]

\* C13: when a frame holding a dirty page is given to another page, the old page's bytes
\* are written to disk under its old page id; the bytes of a page that was unpinned dirty
\* (or is already on disk) are changed by nothing but a pin holder's write, so a later
\* FetchPage returns them whatever evictions happened in between.
C13_EvictionPreservesData == [][C13_Step]_vars

C13_Witness ==
  /\ page_table[0] # NoFrame /\ pages[page_table[0]].pin_count > 0
  /\ pages[page_table[0]].data = 1 /\ ~pages[page_table[0]].is_dirty
  /\ disk[0] = 1
  /\ bpm_ret = page_table[0]
  /\ next_page_id = MaxPages

(***************************************************************************)
(* C14.  Dirty is sticky.                                                  *)
(***************************************************************************)
IsDirty(p) == page_table[p] # NoFrame /\ pages[page_table[p]].is_dirty
IsDirtyAfter(p) == page_table'[p] # NoFrame /\ pages'[page_table'[p]].is_dirty

C14_Step ==
  \A p \in PageIds :
    (IsDirty(p) /\ ~IsDirtyAfter(p))
      => /\ \/ FlushPage(p)
            \/ FlushAllPages
            \/ DeletePage(p)
            \/ page_table'[p] = NoFrame /\ pages'[page_table[p]].page_id # p
         /\ ~FetchPage(p)
         /\ \A d \in BOOLEAN : ~UnpinPage(p, d)

\* C14: a resident page marked dirty by UnpinPage(p, true) stays dirty through later
\* UnpinPage(p, false) and FetchPage(p); only FlushPage, FlushAllPages, its eviction or
\* DeletePage clear the flag.
C14_DirtyIsSticky == [][C14_Step]_vars

C14_Witness ==
  /\ next_page_id = 1 /\ page_table[0] = PoolSize - 1
  /\ pages[page_table[0]].is_dirty /\ pages[page_table[0]].pin_count = 1
  /\ bpm_ret = page_table[0]

(***************************************************************************)
(* The replacer called directly, as its own clients and tests call it.     *)
(***************************************************************************)
MaxTrace == 5
ScenarioLen == 7
ScenarioFrames == 1..PoolSize

ReplacerOnly ==
  UNCHANGED <<lmVars, btVars, scan, pages, page_table, free_list, next_page_id, disk, bpm_ret, guards>>

CallRecordAccess(f) ==
  /\ SetReplacer(RecordAccess(Replacer, f))
  /\ evict_ret' = NoResult
  /\ ReplacerOnly

CallSetEvictable(f, set_evictable) ==
  /\ set_evictable => curr_size < MaxCurrSize
  /\ SetReplacer(SetEvictable(Replacer, f, set_evictable))
  /\ evict_ret' = NoResult
  /\ ReplacerOnly

CallRemove(f) ==
  /\ SetReplacer(Remove(Replacer, f))
  /\ evict_ret' = NoResult
  /\ ReplacerOnly

CallEvict ==
  /\ IF EvictChoices(Replacer) = {}
       THEN evict_ret' = NoFrame /\ UNCHANGED <<node_store, current_timestamp, curr_size>>
       ELSE \E f \in EvictChoices(Replacer) :
              SetReplacer(EvictFrame(Replacer, f)) /\ evict_ret' = f
  /\ ReplacerOnly

\* Any trace of the four calls, on every frame id, with at most MaxTrace timestamps.
NextReplacer ==
  \/ \E f \in ReplFrames :
       \/ current_timestamp < MaxTrace /\ CallRecordAccess(f)
       \/ \E b \in BOOLEAN : CallSetEvictable(f, b)
       \/ CallRemove(f)
  \/ CallEvict

SpecReplacer == Init /\ [][NextReplacer]_vars

\* Traces of up to ScenarioLen accesses to frames 1..PoolSize without Remove.
NextScenario ==
  \/ \E f \in ScenarioFrames :
       \/ current_timestamp < ScenarioLen /\ CallRecordAccess(f)
       \/ \E b \in BOOLEAN : CallSetEvictable(f, b)
  \/ CallEvict

SpecScenario == Init /\ [][NextScenario]_vars

(***************************************************************************)
(* C15.  The LRU-K choice.                                                 *)
(***************************************************************************)
EvictableFrames == {f \in ReplFrames : Evictable(f)}

\* The backward k-distance of a tracked frame: infinite with fewer than k recorded
\* accesses, else the current timestamp minus the timestamp of the k-th most recent one.
KInfinite(f) == Len(node_store[f].history) < ReplacerK
KDistance(f) == current_timestamp - Back(node_store[f].history)

\* Frame f is to be evicted rather than frame g.
Preferred(f, g) ==
  \/ KInfinite(f) /\ ~KInfinite(g)
  \/ ~KInfinite(f) /\ ~KInfinite(g) /\ KDistance(f) > KDistance(g)
  \/ /\ KInfinite(f) = KInfinite(g)
     /\ KInfinite(f) \/ KDistance(f) = KDistance(g)
     /\ Back(node_store[f].history) < Back(node_store[g].history)

LargestKDistance == {f \in EvictableFrames : \A g \in EvictableFrames : ~Preferred(g, f)}

C15_Step == (EvictableFrames # {} /\ evict_ret' \notin LargestKDistance) => ~CallEvict

\* C15: after any trace of RecordAccess, SetEvictable, Remove and Evict calls, Evict
\* returns the evictable frame with the largest backward k-distance, ties broken by the
\* smallest oldest retained timestamp.
C15_EvictReturnsLargestKDistance == [][C15_Step]_vars

(***************************************************************************)
(* C16.  The LRU-K scenario.                                               *)
(***************************************************************************)
\* The replacer after the accesses 1, 2, 3, 1, 2, 3, 1 (timestamps 0..6) with k = 2 and
\* all three frames marked evictable.
C16_Scenario ==
  /\ ReplacerK = 2 /\ current_timestamp = 7
  /\ node_store[1] = [present |-> TRUE, history |-> <<6, 3>>, is_evictable |-> TRUE]
  /\ node_store[2] = [present |-> TRUE, history |-> <<4, 1>>, is_evictable |-> TRUE]
  /\ node_store[3] = [present |-> TRUE, history |-> <<5, 2>>, is_evictable |-> TRUE]

\* C16 as stated: with k = 2, after the access sequence 1, 2, 3, 1, 2, 3, 1 on frames 1,
\* 2, 3, all evictable, Evict returns frame 3.
C16_EvictReturnsFrame3 == [][(C16_Scenario /\ evict_ret' # 3) => ~CallEvict]_vars

\* C16 amended: in that scenario Evict returns frame 2, whose second most recent access
\* (timestamp 1) is the oldest, so that its backward 2-distance 6 is the largest.
C16_EvictReturnsFrame2 == [][(C16_Scenario /\ evict_ret' # 2) => ~CallEvict]_vars

C16_Witness ==
  /\ current_timestamp = 7 /\ evict_ret = 2
  /\ node_store[1] = [present |-> TRUE, history |-> <<6, 3>>, is_evictable |-> TRUE]
  /\ node_store[2] = NoNode
  /\ node_store[3] = [present |-> TRUE, history |-> <<5, 2>>, is_evictable |-> TRUE]

(***************************************************************************)
(* C17.  When Evict succeeds.                                              *)
(***************************************************************************)
C17_Outcome ==
  IF EvictableFrames # {}
  THEN evict_ret' \in EvictableFrames /\ node_store'[evict_ret'] = NoNode
  ELSE evict_ret' = NoFrame

\* C17: after any sequence of RecordAccess, SetEvictable, Remove and Evict calls, Evict
\* succeeds exactly when some tracked frame is evictable; it then returns an evictable
\* frame and removes its history and evictable flag, and it fails only when no frame is
\* evictable.
C17_EvictSucceedsIffEvictable == [][~C17_Outcome => ~CallEvict]_vars

(***************************************************************************)
(* C18.  Size.                                                             *)
(***************************************************************************)
\* LRUKReplacer::Size
Size == curr_size

\* C18: after any sequence of RecordAccess, SetEvictable, Evict and Remove calls, Size()
\* is the number of tracked frames whose evictable flag is true.
C18_SizeCountsEvictable == Size = Cardinality(EvictableFrames)

(***************************************************************************)
(* C19.  DeletePage.                                                       *)
(***************************************************************************)
C19_Outcome(p) ==
  IF page_table[p] = NoFrame
    THEN bpm_ret' = 1 /\ BpmUnchanged
  ELSE IF pages[page_table[p]].pin_count > 0
    THEN bpm_ret' = 0 /\ BpmUnchanged
  ELSE LET f == page_table[p]
       IN /\ bpm_ret' = 1
          /\ \A q \in PageIds : page_table'[q] # f
          /\ node_store'[f] = NoNode
          /\ \E i \in 1..Len(free_list') : free_list'[i] = f
          /\ pages'[f].page_id = INVALID_PAGE_ID

\* C19: DeletePage(p) returns true and changes nothing when p is not resident, returns
\* false and changes nothing when p is resident and pinned, and for a resident unpinned
\* page returns true, removes p from the page table and the frame from the replacer,
\* puts the frame on the free list and resets its page id to INVALID_PAGE_ID.
C19_DeletePage == [][\A p \in PageIds : ~C19_Outcome(p) => ~DeletePage(p)]_vars

C19_Witness ==
  /\ next_page_id = 1 /\ page_table[0] = NoFrame /\ bpm_ret = 1
  /\ Len(free_list) = PoolSize /\ Back(free_list) = PoolSize - 1
  /\ node_store[PoolSize - 1] = NoNode
  /\ pages[PoolSize - 1].page_id = INVALID_PAGE_ID

(***************************************************************************)
(* Page guards.  Every pin is taken through a guard: NewPageGuarded and    *)
(* FetchPageBasic/Read/Write build the guard around the Page that NewPage  *)
(* or FetchPage returns, and Drop (also run by the destructor) gives the   *)
(* pin back.  A Read or Write guard is handed to its caller once the page  *)
(* latch is acquired.                                                      *)
(***************************************************************************)
NewGuard(kind, frame) ==
  [page_ |-> frame, is_dirty_ |-> FALSE, kind |-> kind, latched |-> FALSE,
   unpinned |-> FALSE]

\* page->RLatch() or page->WLatch() of guard g can return.
LatchFree(g) ==
  \A h \in GuardIds \ {g} :
    (guards[h].page_ = guards[g].page_ /\ guards[h].latched)
      => guards[g].kind = "read" /\ guards[h].kind = "read"

FetchPageGuard(g, kind, page_id) ==
  /\ guards[g].page_ = NoFrame
  /\ FetchPage(page_id)
  /\ guards' = [guards EXCEPT ![g] = NewGuard(kind, bpm_ret')]

FetchPageBasic(g, page_id) == FetchPageGuard(g, "basic", page_id)

FetchPageRead(g, page_id) == FetchPageGuard(g, "read", page_id)

FetchPageWrite(g, page_id) == FetchPageGuard(g, "write", page_id)

NewPageGuarded(g) ==
  /\ guards[g].page_ = NoFrame
  /\ NewPage
  /\ guards' = [guards EXCEPT ![g] =
                  NewGuard("basic", IF bpm_ret' = INVALID_PAGE_ID THEN NoFrame
                                    ELSE page_table'[bpm_ret'])]

LatchPage(g) ==
  /\ guards[g].kind \in {"read", "write"} /\ guards[g].page_ # NoFrame /\ ~guards[g].latched
  /\ LatchFree(g)
  /\ guards' = [guards EXCEPT ![g].latched = TRUE]
  /\ UNCHANGED <<lmVars, btVars, scan, pages, page_table, free_list, next_page_id, node_store,
                 current_timestamp, curr_size, disk, bpm_ret, evict_ret>>

\* guard.AsMut<T>() marks the guard dirty.
AsMut(g) ==
  /\ guards[g].page_ # NoFrame /\ ~guards[g].is_dirty_ /\ ~guards[g].unpinned
  /\ guards[g].kind = "basic" \/ (guards[g].kind = "write" /\ guards[g].latched)
  /\ guards' = [guards EXCEPT ![g].is_dirty_ = TRUE]
  /\ UNCHANGED <<lmVars, btVars, scan, pages, page_table, free_list, next_page_id, node_store,
                 current_timestamp, curr_size, disk, bpm_ret, evict_ret>>

\* The guard after Drop: bpm_ = nullptr, page_ = nullptr, is_dirty_ = false.
Dropped_Keep(gd) == gd

Dropped(gd) ==
  [gd EXCEPT !.page_ = NoFrame, !.is_dirty_ = FALSE, !.latched = FALSE, !.unpinned = FALSE]

\* Drop of a guard its caller holds, called explicitly or by the destructor.
\* BasicPageGuard::Drop unpins and clears the guard.  ReadPageGuard::Drop and
\* WritePageGuard::Drop call UnpinPage first, while the page latch is still held
\* (unpinned marks the guard between the two calls); DropUnlatch is the rest of the call.
Drop(g) ==
  /\ guards[g].kind # "none" /\ ~guards[g].unpinned
  /\ guards[g].page_ # NoFrame => (guards[g].kind = "basic" \/ guards[g].latched)
  /\ IF guards[g].page_ # NoFrame
       THEN UnpinPage(pages[guards[g].page_].page_id, guards[g].is_dirty_)
       ELSE UNCHANGED <<lmVars, btVars, scan, pages, page_table, free_list, next_page_id, node_store,
                        current_timestamp, curr_size, disk, bpm_ret, evict_ret>>
  /\ guards' = [guards EXCEPT ![g] =
                  IF @.page_ # NoFrame /\ @.kind \in {"read", "write"}
                    THEN [@ EXCEPT !.unpinned = TRUE]
                    ELSE Dropped(@)]

\* guard_.page_->RUnlatch() or WUnlatch(), then the guard's fields are cleared.
DropUnlatch(g) ==
  /\ guards[g].unpinned
  /\ guards' = [guards EXCEPT ![g] = Dropped(@)]
  /\ UNCHANGED <<lmVars, btVars, scan, pages, page_table, free_list, next_page_id, node_store,
                 current_timestamp, curr_size, disk, bpm_ret, evict_ret>>

NextGuard ==
  \E g \in GuardIds :
    \/ NewPageGuarded(g)
    \/ \E p \in PageIds : FetchPageBasic(g, p) \/ FetchPageRead(g, p) \/ FetchPageWrite(g, p)
    \/ LatchPage(g)
    \/ AsMut(g)
    \/ Drop(g)
    \/ DropUnlatch(g)

SpecGuard == Init /\ [][NextGuard]_vars

(***************************************************************************)
(* C20.  Page guards and pins.                                             *)
(***************************************************************************)
\* The guards that own a pin of frame f.
Holders(f) == {g \in GuardIds : guards[g].page_ = f /\ ~guards[g].unpinned}

PinCount(p) == IF page_table[p] # NoFrame THEN pages[page_table[p]].pin_count ELSE 0
PinCountAfter(p) == IF page_table'[p] # NoFrame THEN pages'[page_table'[p]].pin_count ELSE 0

C20_Pins == \A f \in Frames : pages[f].pin_count >= 0 /\ pages[f].pin_count = Cardinality(Holders(f))

C20_Step ==
  \A g \in GuardIds :
    /\ \A p \in PageIds :
         (guards'[g].page_ # NoFrame /\ PinCountAfter(p) # PinCount(p) + 1)
           => ~(FetchPageBasic(g, p) \/ FetchPageRead(g, p) \/ FetchPageWrite(g, p))
    /\ (/\ guards[g].page_ # NoFrame
        /\ ~(/\ pages'[guards[g].page_].pin_count = pages[guards[g].page_].pin_count - 1
             /\ guards'[g].page_ = NoFrame \/ guards'[g].unpinned))
         => ~Drop(g)
    /\ (guards[g].page_ = NoFrame /\ ~UNCHANGED <<pages, page_table, node_store, curr_size>>)
         => ~Drop(g)

\* C20: a guard from FetchPageBasic, FetchPageRead or FetchPageWrite raises the page's
\* pin count by exactly one; its first Drop (or its destructor) lowers the pin count by
\* one, and any further Drop changes nothing; every pin count is the number of guards
\* holding the page and never goes below zero.
C20_GuardPins == [](C20_Pins) /\ [][C20_Step]_vars

C20_Witness ==
  /\ guards[1].kind = "read" /\ guards[1].page_ = NoFrame
  /\ ~guards[2].unpinned
  /\ guards[2].kind = "write" /\ guards[2].page_ # NoFrame /\ guards[2].latched
  /\ pages[guards[2].page_].pin_count = 1
  /\ bpm_ret = 1

(***************************************************************************)
(* C21.  Order of unlatch and unpin in Drop.                               *)
(***************************************************************************)
\* C21: when a ReadPageGuard or WritePageGuard is dropped the page latch is released
\* before the page is unpinned, so no guard holds a latch on a page whose pin it has
\* already given up.
C21_UnlatchBeforeUnpin == \A g \in GuardIds : guards[g].latched => ~guards[g].unpinned

(***************************************************************************)
(* B+tree index (storage/index/b_plus_tree.cpp).  A tree page is a record  *)
(* [is_leaf, max_size, entries, next_page_id]; entries is array_[0..size-1]*)
(* as a sequence of [key, value], so GetSize is its length.  Slot 0 of an  *)
(* internal page carries the key the code stored there.  Keys are integers *)
(* compared as integers, KeyType{} is 0, and the value stored with key k   *)
(* is ValueOf(k).  Each call runs alone from its first latch to its return *)
(* (the operators below thread the tree through the call); the write set   *)
(* ws is ctx.write_set_ as a sequence of page ids.                         *)
(***************************************************************************)
Entry(k, v) == [key |-> k, value |-> v]

LeafPage(entries, max, next) ==
  [is_leaf |-> TRUE, max_size |-> max, entries |-> entries, next_page_id |-> next]

InternalPage(entries, max) ==
  [is_leaf |-> FALSE, max_size |-> max, entries |-> entries, next_page_id |-> INVALID_PAGE_ID]

GetSize(n) == Len(n.entries)

KeyAt(n, i) == n.entries[i + 1].key

ValueAt(n, i) == n.entries[i + 1].value

SetKeyAt(n, i, k) == [n EXCEPT !.entries[i + 1].key = k]

\* array_[a..b], both inclusive, counted from 0
Slots(n, a, b) == SubSeq(n.entries, a + 1, b + 1)

GetMinSize(n) == (n.max_size + 1) \div 2

ValueIndex(n, v) ==
  IF \E i \in 0..(GetSize(n) - 1) : ValueAt(n, i) = v
    THEN CHOOSE i \in 0..(GetSize(n) - 1) :
           ValueAt(n, i) = v /\ \A j \in 0..(i - 1) : ValueAt(n, j) # v
    ELSE -1

InsertAt_Always(n, index, e) ==
  [n EXCEPT !.entries = SubSeq(@, 1, index) \o <<e>> \o SubSeq(@, index + 1, Len(@))]

\* BPlusTreeInternalPage::InsertAt
InsertAt(n, index, e) == IF index <= 0 THEN n ELSE InsertAt_Always(n, index, e)

\* BPlusTreeLeafPage::InsertAt
LeafInsertAt(n, index, e) ==
  [n EXCEPT !.entries = SubSeq(@, 1, index) \o <<e>> \o SubSeq(@, index + 1, Len(@))]

\* BPlusTreeInternalPage::RemoveAt
RemoveAt(n, index) ==
  IF index < 0 THEN n
  ELSE [n EXCEPT !.entries = SubSeq(@, 1, index) \o SubSeq(@, index + 2, Len(@))]

\* BPlusTreeLeafPage::RemoveAt
LeafRemoveAt(n, index) ==
  [n EXCEPT !.entries = SubSeq(@, 1, index) \o SubSeq(@, index + 2, Len(@))]

\* The tree a call works on: the pages, the next page id the buffer pool allocates, the
\* root page id of the header page, the write set, and the call's return value.
Tree ==
  [pages |-> bt_pages, next |-> bt_next_page_id, root |-> root_page_id, ws |-> <<>>,
   ret |-> FALSE]

\* bpm_->NewPageGuarded(&page_id) followed by the initialisation of the new page
NewTreePage(s, n) == [s EXCEPT !.pages = (s.next :> n) @@ s.pages, !.next = s.next + 1]

PopBack(ws) == SubSeq(ws, 1, Len(ws) - 1)

PopFront(ws) == SubSeq(ws, 2, Len(ws))

\* The binary search of an internal page in GetValue, Insert, Remove and Begin(key):
\* the index of the child to descend to.
RECURSIVE InternalSearchFrom(_, _, _, _, _)
InternalSearchFrom(n, key, left, right, mid) ==
  IF left > right THEN mid
  ELSE LET m == left + (right - left) \div 2
       IN IF key > KeyAt(n, m)
            THEN InternalSearchFrom(n, key, m + 1, right, m)
            ELSE InternalSearchFrom(n, key, left, m - 1, m - 1)

InternalSearch(n, key) == InternalSearchFrom(n, key, 1, GetSize(n) - 1, 1)

\* The binary search of a leaf in Insert and Remove: whether the key was found, and the
\* last probe.
RECURSIVE LeafSearchFrom(_, _, _, _, _)
LeafSearchFrom(n, key, left, right, mid) ==
  IF left > right THEN [found |-> FALSE, mid |-> mid]
  ELSE LET m == left + (right - left) \div 2
       IN IF key >= KeyAt(n, m)
            THEN IF key = KeyAt(n, m) THEN [found |-> TRUE, mid |-> m]
                 ELSE LeafSearchFrom(n, key, m + 1, right, m)
            ELSE LeafSearchFrom(n, key, left, m - 1, m)

LeafSearch(n, key) ==
  IF GetSize(n) > 0 THEN LeafSearchFrom(n, key, 0, GetSize(n) - 1, 0)
  ELSE [found |-> FALSE, mid |-> 0]

\* DoSplit's search of the parent for the slot of the new separator.  A leaf split keeps
\* the last probe; an internal split steps back to right when it goes left.
RECURSIVE ParentSearchFrom(_, _, _, _, _, _)
ParentSearchFrom(parent, mid_key, left, right, index, internal) ==
  IF left > right THEN index
  ELSE LET m == left + (right - left) \div 2
       IN IF KeyAt(parent, m) > mid_key
            THEN ParentSearchFrom(parent, mid_key, left, m - 1,
                                  IF internal THEN m - 1 ELSE m, internal)
            ELSE ParentSearchFrom(parent, mid_key, m + 1, right, m, internal)

ParentIndex(parent, mid_key, internal) ==
  LET index == ParentSearchFrom(parent, mid_key, 1, GetSize(parent) - 1, 1, internal)
  IN IF KeyAt(parent, index) < mid_key THEN index + 1 ELSE index

\* The textbook split of a root, which the code does not do: the root page keeps its
\* lower half, and a new page becomes the root.
SplitRoot_Move(s, pg) ==
  LET page == s.pages[pg]
      size == GetSize(page)
      right_id == s.next
      root_id == s.next + 1
      mid == IF page.is_leaf THEN (size - 1) \div 2 ELSE size \div 2
      mid_key == KeyAt(page, mid)
      kept == IF page.is_leaf
                THEN LeafPage(Slots(page, 0, mid), leaf_max_size, right_id)
                ELSE InternalPage(Slots(page, 0, mid - 1), internal_max_size)
      right == IF page.is_leaf
                 THEN LeafPage(Slots(page, mid + 1, size - 1), leaf_max_size, INVALID_PAGE_ID)
                 ELSE InternalPage(<<Entry(SentinelKey, ValueAt(page, mid))>>
                                     \o Slots(page, mid + 1, size - 1), internal_max_size)
      root == InternalPage(<<Entry(SentinelKey, pg), Entry(mid_key, right_id)>>,
                           internal_max_size)
      s1 == NewTreePage(NewTreePage(s, right), root)
  IN [s1 EXCEPT !.pages[pg] = kept, !.root = root_id, !.ws = Append(PopBack(s.ws), root_id)]

\* DoSplit of the root: its halves move to two new pages and the root page becomes an
\* internal page over them.
SplitRoot(s, pg) ==
  LET page == s.pages[pg]
      size == GetSize(page)
      left_id == s.next
      right_id == s.next + 1
      mid == IF page.is_leaf THEN (size - 1) \div 2 ELSE size \div 2
      mid_key == KeyAt(page, mid)
      left == IF page.is_leaf
                THEN LeafPage(Slots(page, 0, mid), leaf_max_size, right_id)
                ELSE InternalPage(Slots(page, 0, mid - 1), internal_max_size)
      right == IF page.is_leaf
                 THEN LeafPage(Slots(page, mid + 1, size - 1), leaf_max_size, INVALID_PAGE_ID)
                 ELSE InternalPage(<<Entry(SentinelKey, ValueAt(page, mid))>>
                                     \o Slots(page, mid + 1, size - 1), internal_max_size)
      root == InternalPage(<<Entry(SentinelKey, left_id), Entry(mid_key, right_id)>>,
                           internal_max_size)
      s1 == NewTreePage(NewTreePage(s, left), right)
  IN [s1 EXCEPT !.pages[pg] = root, !.ws = Append(PopBack(s.ws), pg)]

\* DoSplit of a page below the root: the upper half moves to a new right sibling and the
\* separator is inserted into the parent, the page before it in the write set.
SplitChild(s, pg) ==
  LET page == s.pages[pg]
      size == GetSize(page)
      ws1 == PopBack(s.ws)
  IN IF ws1 = <<>> THEN [s EXCEPT !.ws = ws1]
     ELSE LET parent_id == Back(ws1)
              parent == s.pages[parent_id]
              ws2 == PopBack(ws1)
              mid == IF page.is_leaf THEN (size - 1) \div 2 ELSE size \div 2
              mid_key == KeyAt(page, mid)
              right_id == s.next
              right == IF page.is_leaf
                         THEN LeafPage(Slots(page, mid + 1, size - 1), leaf_max_size,
                                       page.next_page_id)
                         ELSE InternalPage(<<Entry(SentinelKey, ValueAt(page, mid))>>
                                             \o Slots(page, mid + 1, size - 1),
                                           internal_max_size)
              kept == IF page.is_leaf
                        THEN [page EXCEPT !.entries = Slots(page, 0, mid),
                                          !.next_page_id = right_id]
                        ELSE [page EXCEPT !.entries = Slots(page, 0, mid - 1)]
              index == ParentIndex(parent, mid_key, ~page.is_leaf)
              s1 == NewTreePage(s, right)
          IN IF GetSize(parent) < 2 THEN [s EXCEPT !.ws = ws2]
             ELSE [s1 EXCEPT !.pages[pg] = kept,
                             !.pages[parent_id] = InsertAt(parent, index, Entry(mid_key, right_id)),
                             !.ws = Append(ws2, parent_id)]

DoSplit(s) ==
  IF s.ws = <<>> THEN s
  ELSE LET pg == Back(s.ws)
           page == s.pages[pg]
       IN IF GetSize(page) < page.max_size THEN [s EXCEPT !.ws = PopBack(s.ws)]
          ELSE IF pg = s.root THEN SplitRoot(s, pg)
          ELSE SplitChild(s, pg)

\* "while (ctx.write_set_.size() > 2 && size < page->GetMaxSize()) pop_front()"
RECURSIVE ReleaseAncestors(_, _)
ReleaseAncestors(ws, safe) ==
  IF Len(ws) > 2 /\ safe THEN ReleaseAncestors(PopFront(ws), safe) ELSE ws

\* The top of the descent loop of Insert and Remove: latch the page, split it first if
\* it is full and larger than three entries.
Descend(s, page_id) ==
  LET s1 == [s EXCEPT !.ws = Append(s.ws, page_id)]
      size == GetSize(s1.pages[page_id])
  IN IF size > 3 /\ size >= s1.pages[page_id].max_size THEN DoSplit(s1) ELSE s1

RECURSIVE InsertFrom(_, _, _, _)
InsertFrom(s, start_page_id, key, value) ==
  LET size0 == GetSize(s.pages[start_page_id])
      s1 == Descend(s, start_page_id)
      pg == Back(s1.ws)
      page == s1.pages[pg]
      s2 == [s1 EXCEPT !.ws = ReleaseAncestors(s1.ws, size0 < page.max_size)]
      size == GetSize(page)
  IN IF page.is_leaf
       THEN LET r == LeafSearch(page, key)
                index == IF size > 0 /\ ~(key < KeyAt(page, r.mid)) THEN r.mid + 1 ELSE r.mid
                s3 == [s2 EXCEPT !.pages[pg] = LeafInsertAt(page, index, Entry(key, value))]
            IN IF r.found THEN [s2 EXCEPT !.ret = FALSE]
               ELSE [(IF size + 1 >= leaf_max_size THEN DoSplit(s3) ELSE s3)
                       EXCEPT !.ret = TRUE]
     ELSE IF size <= 1 THEN [s2 EXCEPT !.ret = FALSE]
     ELSE InsertFrom(s2, ValueAt(page, InternalSearch(page, key)), key, value)

\* BPlusTree::Insert
InsertCall(s, key, value) ==
  LET s1 == IF s.root = INVALID_PAGE_ID
              THEN [NewTreePage(s, LeafPage(<<>>, leaf_max_size, INVALID_PAGE_ID))
                      EXCEPT !.root = s.next]
              ELSE s
  IN InsertFrom(s1, s1.root, key, value)

\* DoMerge's test that a page needs no rebalancing
HalfFull(n) == (n.is_leaf \/ GetSize(n) > 1) /\ GetSize(n) >= GetMinSize(n)

Return(s) == [s |-> s, done |-> TRUE]

\* DoMerge, leaf with a left sibling: borrow from it, or fold both leaves into the root,
\* or merge into the left sibling and remove the separator from the parent.
LeafWithLeft(s, parent_id, index) ==
  LET parent == s.pages[parent_id]
      left_id == ValueAt(parent, index - 1)
      self_id == ValueAt(parent, index)
      left == s.pages[left_id]
      self == s.pages[self_id]
      left_size == GetSize(left)
      size == GetSize(self)
      move_num == GetMinSize(self) - size
  IN IF left_size + size >= left.max_size
       THEN IF move_num = 0 THEN Return(s)
            ELSE Return([s EXCEPT
                   !.pages[parent_id] = SetKeyAt(parent, index, KeyAt(left, left_size - move_num - 1)),
                   !.pages[self_id] =
                     [self EXCEPT !.entries = Slots(left, left_size - move_num, left_size - 1) \o @],
                   !.pages[left_id] =
                     [left EXCEPT !.entries = Slots(left, 0, left_size - move_num - 1)]])
     ELSE IF GetSize(parent) < 3 /\ parent_id = s.root
       THEN Return([s EXCEPT !.pages[parent_id] =
                      LeafPage(left.entries \o self.entries, left.max_size, INVALID_PAGE_ID)])
     ELSE LET s1 == [s EXCEPT
                       !.pages[left_id] = [left EXCEPT !.entries = @ \o self.entries,
                                                       !.next_page_id = self.next_page_id],
                       !.pages[parent_id] = RemoveAt(parent, index)]
          IN [s |-> s1, done |-> GetSize(s1.pages[parent_id]) > 1]

\* DoMerge, leftmost leaf: the same with the right sibling.
LeafWithRight(s, parent_id, index) ==
  LET parent == s.pages[parent_id]
      self_id == ValueAt(parent, index)
      right_id == ValueAt(parent, index + 1)
      self == s.pages[self_id]
      right == s.pages[right_id]
      right_size == GetSize(right)
      size == GetSize(self)
      move_num == GetMinSize(self) - size
  IN IF right_size + size >= right.max_size
       THEN IF move_num = 0 THEN Return(s)
            ELSE Return([s EXCEPT
                   !.pages[parent_id] = SetKeyAt(parent, index + 1, KeyAt(right, move_num - 1)),
                   !.pages[self_id] = [self EXCEPT !.entries = @ \o Slots(right, 0, move_num - 1)],
                   !.pages[right_id] =
                     [right EXCEPT !.entries = Slots(right, move_num, right_size - 1)]])
     ELSE IF GetSize(parent) < 3 /\ parent_id = s.root
       THEN Return([s EXCEPT !.pages[parent_id] =
                      LeafPage(self.entries \o right.entries, self.max_size, INVALID_PAGE_ID)])
     ELSE LET s1 == [s EXCEPT
                       !.pages[self_id] = [self EXCEPT !.entries = @ \o right.entries,
                                                       !.next_page_id = right.next_page_id],
                       !.pages[parent_id] = RemoveAt(parent, index + 1)]
          IN [s |-> s1, done |-> GetSize(s1.pages[parent_id]) > 1]

\* "self_page->GetMinSize() > 2 ? self_page->GetMinSize() : 2 - size"
InternalMoveNum(self) == IF GetMinSize(self) > 2 THEN GetMinSize(self) ELSE 2 - GetSize(self)

\* DoMerge, internal page with a left sibling.
InternalWithLeft(s, parent_id, index) ==
  LET parent == s.pages[parent_id]
      left_id == ValueAt(parent, index - 1)
      self_id == ValueAt(parent, index)
      left == s.pages[left_id]
      self == s.pages[self_id]
      left_size == GetSize(left)
      size == GetSize(self)
      move_num == InternalMoveNum(self)
      parent_key == KeyAt(parent, index)
      moved == [i \in 1..(size + move_num) |->
                  IF i <= move_num
                    THEN [left.entries[i + left_size - move_num]
                            EXCEPT !.key = IF i = 1 THEN SentinelKey ELSE @]
                    ELSE [self.entries[i - move_num]
                            EXCEPT !.key = IF i = move_num + 1 THEN parent_key ELSE @]]
  IN IF left_size > 2 /\ left_size + size >= left.max_size
       THEN IF move_num = 0 THEN Return(s)
            ELSE Return([s EXCEPT
                   !.pages[parent_id] = SetKeyAt(parent, index, KeyAt(left, left_size - move_num)),
                   !.pages[self_id] = [self EXCEPT !.entries = moved],
                   !.pages[left_id] = [left EXCEPT !.entries = Slots(left, 0, left_size - move_num - 1)]])
     ELSE IF GetSize(parent) < 3 /\ parent_id = s.root
       THEN Return([s EXCEPT !.pages[parent_id] =
                      SetKeyAt(SetKeyAt(InternalPage(left.entries \o self.entries, parent.max_size),
                                        0, SentinelKey),
                               left_size, KeyAt(parent, 1))])
     ELSE LET s1 == [s EXCEPT
                       !.pages[left_id] =
                         [left EXCEPT !.entries = @ \o <<Entry(parent_key, ValueAt(self, 0))>>
                                                    \o Slots(self, 1, size - 1)],
                       !.pages[parent_id] = RemoveAt(parent, index)]
          IN [s |-> s1, done |-> GetSize(s1.pages[parent_id]) > 1]

\* DoMerge, leftmost internal page: the same with the right sibling.
InternalWithRight(s, parent_id, index) ==
  LET parent == s.pages[parent_id]
      self_id == ValueAt(parent, index)
      right_id == ValueAt(parent, index + 1)
      self == s.pages[self_id]
      right == s.pages[right_id]
      right_size == GetSize(right)
      size == GetSize(self)
      move_num == InternalMoveNum(self)
      parent_key == KeyAt(parent, index + 1)
  IN IF right_size > 2 /\ right_size + size >= right.max_size
       THEN IF move_num = 0 THEN Return(s)
            ELSE Return([s EXCEPT
                   !.pages[parent_id] = SetKeyAt(parent, index + 1, KeyAt(right, move_num)),
                   !.pages[self_id] =
                     [self EXCEPT !.entries = @ \o <<Entry(parent_key, ValueAt(right, 0))>>
                                                \o Slots(right, 1, move_num - 1)],
                   !.pages[right_id] =
                     SetKeyAt([right EXCEPT !.entries = Slots(right, move_num, right_size - 1)],
                              0, SentinelKey)])
     ELSE IF GetSize(parent) < 3 /\ parent_id = s.root
       THEN Return([s EXCEPT !.pages[parent_id] =
                      SetKeyAt(SetKeyAt(InternalPage(self.entries \o right.entries, parent.max_size),
                                        0, SentinelKey),
                               size, KeyAt(parent, 1))])
     ELSE LET s1 == [s EXCEPT
                       !.pages[self_id] =
                         [self EXCEPT !.entries = @ \o <<Entry(parent_key, ValueAt(right, 0))>>
                                                    \o Slots(right, 1, right_size - 1)],
                       !.pages[parent_id] = RemoveAt(parent, index + 1)]
          IN [s |-> s1, done |-> GetSize(s1.pages[parent_id]) > 1]

\* One round of DoMerge's loop for page pg under its parent.
MergeAt(s, pg, parent_id) ==
  LET index == ValueIndex(s.pages[parent_id], pg)
  IN IF index < 0 THEN Return(s)
     ELSE IF s.pages[pg].is_leaf
       THEN IF index > 0 THEN LeafWithLeft(s, parent_id, index)
            ELSE LeafWithRight(s, parent_id, index)
     ELSE IF index > 0 THEN InternalWithLeft(s, parent_id, index)
     ELSE InternalWithRight(s, parent_id, index)

RECURSIVE MergeFrom(_, _)
MergeFrom(s, pg) ==
  IF s.ws = <<>> \/ HalfFull(s.pages[pg]) THEN s
  ELSE LET parent_id == Back(s.ws)
           r == MergeAt([s EXCEPT !.ws = PopBack(s.ws)], pg, parent_id)
       IN IF r.done THEN r.s ELSE MergeFrom(r.s, parent_id)

DoMerge(s) ==
  IF s.ws = <<>> THEN s
  ELSE LET pg == Back(s.ws)
           s1 == [s EXCEPT !.ws = PopBack(s.ws)]
       IN IF HalfFull(s.pages[pg]) THEN s1 ELSE MergeFrom(s1, pg)

RECURSIVE RemoveFrom(_, _, _)
RemoveFrom(s, start_page_id, key) ==
  LET s1 == Descend(s, start_page_id)
      pg == Back(s1.ws)
      page == s1.pages[pg]
  IN IF page.is_leaf
       THEN LET r == LeafSearch(page, key)
            IN IF r.found
                 THEN DoMerge([s1 EXCEPT !.pages[pg] = LeafRemoveAt(page, r.mid)])
                 ELSE s1
     ELSE IF GetSize(page) <= 1 THEN s1
     ELSE RemoveFrom(s1, ValueAt(page, InternalSearch(page, key)), key)

\* BPlusTree::Remove
RemoveCall(s, key) == IF s.root = INVALID_PAGE_ID THEN s ELSE RemoveFrom(s, s.root, key)

\* One round of GetValue's loop on the page it has latched: the result, or the child to
\* visit next.
GetValueAt(page, key) ==
  IF GetSize(page) = 0 THEN [done |-> TRUE, result |-> NotFound]
  ELSE IF page.is_leaf
    THEN LET r == LeafSearch(page, key)
         IN [done |-> TRUE,
             result |-> IF r.found THEN [found |-> TRUE, value |-> ValueAt(page, r.mid)]
                        ELSE NotFound]
  ELSE IF GetSize(page) <= 1 THEN [done |-> TRUE, result |-> NotFound]
  ELSE [done |-> FALSE, next |-> ValueAt(page, InternalSearch(page, key))]

RECURSIVE GetValueFrom(_, _, _)
GetValueFrom(tree_pages, start_page_id, key) ==
  LET r == GetValueAt(tree_pages[start_page_id], key)
  IN IF r.done THEN r.result ELSE GetValueFrom(tree_pages, r.next, key)

\* BPlusTree::GetValue
GetValue(key) ==
  IF root_page_id = INVALID_PAGE_ID THEN NotFound
  ELSE GetValueFrom(bt_pages, root_page_id, key)

\* BPlusTree::Begin(): the leaf the iterator starts on, INVALID_PAGE_ID for End().
RECURSIVE BeginFrom(_)
BeginFrom(start_page_id) ==
  LET page == bt_pages[start_page_id]
  IN IF page.is_leaf THEN start_page_id
     ELSE IF GetSize(page) <= 1 THEN INVALID_PAGE_ID
     ELSE BeginFrom(ValueAt(page, 0))

Begin == IF root_page_id = INVALID_PAGE_ID THEN INVALID_PAGE_ID ELSE BeginFrom(root_page_id)

\* The longest leaf chain an iteration follows
MaxScan == ScenarioPages

\* What *it returns at (leaf, index): the entry, or for an index at or beyond the leaf's
\* size whatever the slot holds (junk).
Deref(leaf_id, index, junk) ==
  IF index < GetSize(bt_pages[leaf_id]) THEN bt_pages[leaf_id].entries[index + 1]
  ELSE Entry(junk, junk)

\* "for (it = Begin(); it != End(); ++it)": the entries *it yields.  The iterator equals
\* End() when its index is -1; operator++ moves within the leaf, then to the next leaf,
\* and sets the index to -1 after the last one.
RECURSIVE IterateFrom(_, _, _, _)
IterateFrom(leaf_id, index, junk, fuel) ==
  IF leaf_id = INVALID_PAGE_ID \/ fuel = 0 THEN <<>>
  ELSE LET leaf == bt_pages[leaf_id]
       IN <<Deref(leaf_id, index, junk)>> \o
            (IF index + 1 < GetSize(leaf) THEN IterateFrom(leaf_id, index + 1, junk, fuel - 1)
             ELSE IterateFrom(leaf.next_page_id, 0, junk, fuel - 1))

Iterate(junk) == IterateFrom(Begin, 0, junk, MaxScan)

\* The value stored with key k (tests build the RID from the key).
ValueOf(k) == 2 * k

\* The pages a later call can still fetch: those under the root, those under the page a
\* running GetValue is about to fetch, and those on the leaf chains that start there.
\* The code never frees a page; a page that no child pointer and no next_page_id leads to
\* is never read again, and bt_pages drops it.
RECURSIVE Under(_, _)
Under(tree_pages, id) ==
  LET page == tree_pages[id]
  IN IF page.is_leaf THEN {id}
     ELSE {id} \cup UNION {Under(tree_pages, ValueAt(page, i)) : i \in 0..(GetSize(page) - 1)}

RECURSIVE Chained(_, _, _)
Chained(tree_pages, todo, seen) ==
  IF todo = {} THEN seen
  ELSE LET id == CHOOSE x \in todo : TRUE
           next == tree_pages[id].next_page_id
       IN Chained(tree_pages,
                  (todo \ {id}) \cup (IF tree_pages[id].is_leaf /\ next # INVALID_PAGE_ID
                                         /\ next \notin seen
                                        THEN {next} ELSE {}),
                  seen \cup {id})

Fetchable(s) ==
  LET roots == (IF s.root = INVALID_PAGE_ID THEN {} ELSE {s.root})
                 \cup (IF reader.pc = "walk" THEN {reader.page} ELSE {})
      under == UNION {Under(s.pages, id) : id \in roots}
  IN Chained(s.pages, under, {})

\* The tree as the call leaves it.  A GetValue that has not returned and whose key the
\* call inserts or removes no longer has one answer that is right throughout.
Commit(s, key) ==
  /\ bt_pages' = [id \in Fetchable(s) |-> s.pages[id]]
  /\ bt_next_page_id' = s.next
  /\ root_page_id' = s.root
  /\ reader' = IF reader.pc # "idle" /\ reader.key = key
                 THEN [reader EXCEPT !.stable = FALSE] ELSE reader
  /\ UNCHANGED <<leaf_max_size, internal_max_size, threads>>
  /\ UNCHANGED <<lmVars, bpmVars, scan>>

\* A call of Insert(key, value); bt_ref is the plain map the same calls are applied to.
Insert(key, value) ==
  LET s == InsertCall(Tree, key, value)
  IN /\ Commit(s, key)
     /\ bt_ret' = s.ret
     /\ bt_ref' = IF key \in DOMAIN bt_ref THEN bt_ref ELSE (key :> value) @@ bt_ref

\* A call of Remove(key).
TreeRemove(key) ==
  LET s == RemoveCall(Tree, key)
  IN /\ Commit(s, key)
     /\ bt_ref' = [k \in (DOMAIN bt_ref) \ {key} |-> bt_ref[k]]
     /\ UNCHANGED bt_ret

\* GetValue run by a second thread, one latched page at a time.  It reads the root page
\* id under the header latch and drops the header guard; each round of its loop fetches
\* the page, searches it and lets the guard go at the end of the round, before the next
\* round fetches the child.
GetValueStart(key) ==
  /\ reader.pc = "idle"
  /\ reader' = IF root_page_id = INVALID_PAGE_ID
                 THEN [pc |-> "done", key |-> key, page |-> INVALID_PAGE_ID,
                       result |-> NotFound, stable |-> TRUE]
                 ELSE [pc |-> "walk", key |-> key, page |-> root_page_id,
                       result |-> NotFound, stable |-> TRUE]
  /\ UNCHANGED <<bt_pages, bt_next_page_id, root_page_id, leaf_max_size, internal_max_size,
                 bt_ref, bt_ret, threads>>
  /\ UNCHANGED <<lmVars, bpmVars, scan>>

GetValueVisit ==
  /\ reader.pc = "walk"
  /\ LET r == GetValueAt(bt_pages[reader.page], reader.key)
     IN reader' = IF r.done
                    THEN [reader EXCEPT !.pc = "done", !.result = r.result,
                                        !.page = INVALID_PAGE_ID]
                    ELSE [reader EXCEPT !.page = r.next]
  /\ UNCHANGED <<bt_pages, bt_next_page_id, root_page_id, leaf_max_size, internal_max_size,
                 bt_ref, bt_ret, threads>>
  /\ UNCHANGED <<lmVars, bpmVars, scan>>

GetValueReturn ==
  /\ reader.pc = "done"
  /\ reader' = IdleReader
  /\ UNCHANGED <<bt_pages, bt_next_page_id, root_page_id, leaf_max_size, internal_max_size,
                 bt_ref, bt_ret, threads>>
  /\ UNCHANGED <<lmVars, bpmVars, scan>>

(***************************************************************************)
(* Specifications of the B+tree.  SpecTree: Insert and Remove of positive  *)
(* keys under every configuration; SpecSigned: keys on both sides of the   *)
(* all-zero key with the smallest page sizes; SpecAscending: keys inserted *)
(* in ascending order and removed from the smallest; SpecCrab: a GetValue  *)
(* in a second thread while Insert and Remove calls run.                   *)
(***************************************************************************)
LeafMaxSizes == MinLeafMax..MaxLeafMax

InternalMaxSizes == MinInternalMax..MaxInternalMax

KeyDomain == 1..MaxKey

SignedKeys == (SentinelKey - 1)..MaxSignedKey

InitTree(LM, IM) ==
  /\ InitLockManager /\ AllRepeatableRead /\ InitBufferPool /\ InitExecutor
  /\ \E lm \in LM, im \in IM : InitBPlusTree(lm, im)

\* The value a caller passes with key k: ValueOf(k), and another value when the
\* reference map already holds k.
ValueFor(k) == IF k \in DOMAIN bt_ref THEN ValueOf(k) + 1 ELSE ValueOf(k)

\* The buffer pool behind the tree holds n pages (Remove splits a full page on its way
\* down, so it allocates pages too).
Capped(n) == bt_next_page_id' <= n + 1

NextTree ==
  \E k \in KeyDomain :
    \/ Insert(k, ValueFor(k)) /\ Capped(MaxTreePages)
    \/ TreeRemove(k) /\ Capped(MaxTreePages)

SpecTree == InitTree(LeafMaxSizes, InternalMaxSizes) /\ [][NextTree]_vars

NextSigned ==
  \E k \in SignedKeys :
    \/ Insert(k, ValueFor(k)) /\ Capped(MaxTreePages)
    \/ TreeRemove(k) /\ Capped(MaxTreePages)

SpecSigned == InitTree({MinLeafMax}, {MinInternalMax}) /\ [][NextSigned]_vars

Smallest(S) == CHOOSE x \in S : \A y \in S : x <= y

Largest(S) == CHOOSE x \in S : \A y \in S : x >= y

NextAscending ==
  \/ \E k \in 1..ScenarioKeys :
       /\ IF DOMAIN bt_ref = {} THEN k = 1
          ELSE Smallest(DOMAIN bt_ref) = 1 /\ k = Largest(DOMAIN bt_ref) + 1
       /\ Insert(k, ValueFor(k))
       /\ Capped(ScenarioPages)
  \/ /\ DOMAIN bt_ref # {}
     /\ TreeRemove(Smallest(DOMAIN bt_ref))
     /\ Capped(ScenarioPages)

SpecAscending == InitTree({ScenarioMax}, {ScenarioMax}) /\ [][NextAscending]_vars

NextCrab ==
  \/ \E k \in 1..CrabKeys :
       \/ Insert(k, ValueFor(k)) /\ Capped(CrabPages)
       \/ TreeRemove(k) /\ Capped(CrabPages)
       \/ GetValueStart(k)
  \/ GetValueVisit
  \/ GetValueReturn

SpecCrab == InitTree({CrabLeafMax}, {MinInternalMax}) /\ [][NextCrab]_vars


(***************************************************************************)
(* The shape of the tree under the root.                                   *)
(***************************************************************************)
\* The leaves under page id from left to right, each with its depth below id.
RECURSIVE LeavesUnder(_, _)
LeavesUnder(id, depth) ==
  LET page == bt_pages[id]
      F[i \in 0..GetSize(page)] ==
        IF i = 0 THEN <<>> ELSE F[i - 1] \o LeavesUnder(ValueAt(page, i - 1), depth + 1)
  IN IF page.is_leaf THEN <<[id |-> id, depth |-> depth]>> ELSE F[GetSize(page)]

TreePages == IF root_page_id = INVALID_PAGE_ID THEN {} ELSE Under(bt_pages, root_page_id)

TreeLeaves == IF root_page_id = INVALID_PAGE_ID THEN <<>> ELSE LeavesUnder(root_page_id, 0)

\* The leaf chain from a leaf, following next_page_id.
RECURSIVE ChainFrom(_, _)
ChainFrom(leaf_id, fuel) ==
  IF leaf_id = INVALID_PAGE_ID \/ fuel = 0 THEN <<>>
  ELSE <<leaf_id>> \o ChainFrom(bt_pages[leaf_id].next_page_id, fuel - 1)

\* The keys of S in ascending order
RECURSIVE Ascending(_)
Ascending(S) == IF S = {} THEN <<>> ELSE <<Smallest(S)>> \o Ascending(S \ {Smallest(S)})

IteratedKeys(junk) == [i \in 1..Len(Iterate(junk)) |-> Iterate(junk)[i].key]

Lookup(k) == IF k \in DOMAIN bt_ref THEN [found |-> TRUE, value |-> bt_ref[k]] ELSE NotFound

AllKeys == SignedKeys \cup KeyDomain \cup (1..ScenarioKeys)

(***************************************************************************)
(* C22.  Ordered iteration.                                                *)
(***************************************************************************)
\* C22: after any sequence of Insert and Remove calls, iterating from Begin() until the
\* iterator equals End() yields the keys of the tree, each once, in strictly ascending
\* order.
C22_OrderedIteration == \A junk \in KeyDomain : IteratedKeys(junk) = Ascending(DOMAIN bt_ref)

(***************************************************************************)
(* C23.  Insert/remove round trip.                                         *)
(***************************************************************************)
\* C23: after any sequence of Insert and Remove calls on distinct keys, keys at or below
\* the all-zero key included, GetValue(k) returns true with the inserted value exactly
\* for the keys of the reference map.
C23_RoundTrip == \A k \in AllKeys : GetValue(k) = Lookup(k)

(***************************************************************************)
(* C24.  Duplicate keys.                                                   *)
(***************************************************************************)
\* C24: Insert of a key that is already in the tree returns false and leaves the tree
\* unchanged: no page's contents change, so every key keeps its value and no key is added
\* or removed.
C24_DuplicateInsert ==
  [][(bt_ref' = bt_ref /\ (bt_ret' # FALSE \/ bt_pages' # bt_pages \/ root_page_id' # root_page_id))
       => \A k \in DOMAIN bt_ref : ~Insert(k, ValueFor(k))]_vars

\* The call changed what GetValue returns for some key.
C24_Changed == \E j \in SignedKeys \cup KeyDomain : GetValue(j)' # GetValue(j)

\* The weaker reading of C24: Insert of a key that is already in the tree returns false
\* and changes the value GetValue returns for no key.
C24_ContentKept ==
  [][(bt_ref' = bt_ref /\ (bt_ret' # FALSE \/ C24_Changed))
       => \A k \in DOMAIN bt_ref : ~Insert(k, ValueFor(k))]_vars

(***************************************************************************)
(* C26.  Page sizes.                                                       *)
(***************************************************************************)
\* C26: after every completed Insert or Remove every page other than the root holds at
\* most max_size entries, for every leaf_max_size and internal_max_size.
C26_SizeBound ==
  \A id \in TreePages \ {root_page_id} : GetSize(bt_pages[id]) <= bt_pages[id].max_size

(***************************************************************************)
(* C27.  Leaf occupancy.                                                   *)
(***************************************************************************)
\* C27: after every completed Insert or Remove every leaf other than the root holds at
\* least ceil(leaf_max_size / 2) entries, for even and odd leaf_max_size.
C27_LeafHalfFull ==
  \A id \in TreePages \ {root_page_id} :
    bt_pages[id].is_leaf => 2 * GetSize(bt_pages[id]) >= leaf_max_size

(***************************************************************************)
(* C28.  Balance and the leaf chain.                                       *)
(***************************************************************************)
Balanced == \A i, j \in 1..Len(TreeLeaves) : TreeLeaves[i].depth = TreeLeaves[j].depth

LeafChain ==
  root_page_id # INVALID_PAGE_ID =>
    ChainFrom(TreeLeaves[1].id, MaxScan) = [i \in 1..Len(TreeLeaves) |-> TreeLeaves[i].id]

\* C28: after every completed Insert or Remove all leaves are at the same depth and the
\* next_page_id chain from the leftmost leaf visits every leaf once from left to right.
C28_Balanced == Balanced /\ LeafChain

\* The run of the claim: keys 1..16 inserted in order, then keys 1..8 removed in order.
C28_ScenarioDone == DOMAIN bt_ref = (ScenarioKeys \div 2 + 1)..ScenarioKeys

\* After that run the tree is balanced and the iteration yields exactly 9..16.
C28_Scenario ==
  C28_ScenarioDone =>
    /\ Balanced /\ LeafChain
    /\ \A junk \in KeyDomain : IteratedKeys(junk) = Ascending(DOMAIN bt_ref)

(***************************************************************************)
(* C29.  The root page id.                                                 *)
(***************************************************************************)
\* C29: once the first Insert has stored a root page id in the header page, no Insert or
\* Remove changes it; root splits and merges rewrite the root page in place.
C29_RootStable == [][root_page_id # INVALID_PAGE_ID => root_page_id' = root_page_id]_vars

C29_Witness ==
  /\ root_page_id # INVALID_PAGE_ID
  /\ bt_pages[root_page_id].is_leaf
  /\ bt_next_page_id > 5
  /\ Cardinality(DOMAIN bt_ref) >= 2

(***************************************************************************)
(* C25.  GetValue next to Insert and Remove.                               *)
(***************************************************************************)
\* C25: a GetValue that runs while other threads insert and remove other keys returns
\* what it returns in a serial order of the calls: for a key that no concurrent call
\* inserts or removes, the answer of the reference map.
C25_CrabSafety == (reader.pc = "done" /\ reader.stable) => reader.result = Lookup(reader.key)

(***************************************************************************)
(* The sequential scan executor (execution/seq_scan_executor.cpp), run by  *)
(* transaction t over the rows of table oid for a plan that is not a       *)
(* delete.  scan.rid is the row under the table iterator, scan.out the     *)
(* rows whose tuples Next has returned, scan.blocked whether a lock call   *)
(* of the scan has waited, and scan.dirty whether Next returned the tuple  *)
(* of a row that another transaction held in X at that time.               *)
(***************************************************************************)
\* "REPEATABLE_READ == txn->GetIsolationLevel() || READ_COMMITTED == ..."
TakesLocks_RepeatableOnly(t) == iso_level[t] = "REPEATABLE_READ"

TakesLocks(t) == iso_level[t] \in {"REPEATABLE_READ", "READ_COMMITTED"}

\* Where the scan stands after a lock-manager call: waiting in the call, past it, or
\* out of the executor with the exception the call or its false result raised.
AfterCall(t, waiting, passed) ==
  [scan EXCEPT !.pc = IF crashed' THEN "failed"
                      ELSE IF ret'[t] = "WAIT" THEN waiting
                      ELSE IF ret'[t] = "TRUE" THEN passed
                      ELSE "failed",
               !.blocked = @ \/ (~crashed' /\ ret'[t] = "WAIT")]

\* SeqScanExecutor::Init
SeqScanInit(t, oid) ==
  /\ scan.pc = "idle"
  /\ IF TakesLocks(t) /\ oid \notin table_lock_set[t]["IX"]
       THEN /\ LockTable(t, "IS", oid)
            /\ scan' = AfterCall(t, "init", "next")
       ELSE /\ Idle(t)
            /\ scan' = [scan EXCEPT !.pc = "next"]
            /\ UNCHANGED <<lmVars, bpmVars, btVars>>

\* The LockTable call of Init returns from its wait.
SeqScanInitWake(t) ==
  /\ scan.pc = "init"
  /\ LockTableWake(t)
  /\ scan' = AfterCall(t, "init", "next")

\* SeqScanExecutor::Next up to the row lock of the row under the iterator.
SeqScanLock(t, oid) ==
  /\ scan.pc = "next"
  /\ scan.rid \in Rows
  /\ IF TakesLocks(t) /\ scan.rid \notin row_lock_set[t]["X"][oid]
       THEN /\ LockRow(t, "S", oid, scan.rid)
            /\ scan' = AfterCall(t, "lock", "read")
       ELSE /\ Idle(t)
            /\ scan' = [scan EXCEPT !.pc = "read"]
            /\ UNCHANGED <<lmVars, bpmVars, btVars>>

\* The LockRow call of Next returns from its wait.
SeqScanLockWake(t) ==
  /\ scan.pc = "lock"
  /\ LockRowWake(t)
  /\ scan' = AfterCall(t, "lock", "read")

\* Next reads the tuple under the iterator: a live tuple is returned, and a
\* READ_COMMITTED scan gives its S lock back first; a deleted tuple is skipped, and a
\* locking scan calls UnlockRow for it.
SeqScanRead(t, oid, is_deleted) ==
  /\ scan.pc = "read"
  /\ LET unlocks == IF is_deleted THEN TakesLocks(t)
                    ELSE /\ iso_level[t] = "READ_COMMITTED"
                         /\ scan.rid \in row_lock_set[t]["S"][oid]
         read == [scan EXCEPT !.rid = @ + 1,
                              !.out = IF is_deleted THEN @ ELSE @ \cup {scan.rid},
                              !.dirty = @ \/ (~is_deleted /\ \E u \in Txns \ {t} :
                                                scan.rid \in row_lock_set[u]["X"][oid])]
     IN IF unlocks
          THEN /\ UnlockRow(t, oid, scan.rid, TRUE)
               /\ scan' = [read EXCEPT !.pc = IF crashed' \/ ret'[t] # "TRUE"
                                                THEN "failed" ELSE "next"]
          ELSE /\ Idle(t)
               /\ scan' = [read EXCEPT !.pc = "next"]
               /\ UNCHANGED <<lmVars, bpmVars, btVars>>

\* Next with the iterator at its end: the executor is exhausted.
SeqScanEnd ==
  /\ scan.pc = "next"
  /\ scan.rid \notin Rows
  /\ scan' = [scan EXCEPT !.pc = "done"]
  /\ UNCHANGED <<lmVars, bpmVars, btVars>>

(***************************************************************************)
(* SpecScan: transaction 2 scans table 1 under each isolation level while  *)
(* transaction 1 takes IX or X on the table and X on its rows and releases *)
(* them.                                                                   *)
(***************************************************************************)
InitScan ==
  /\ InitLockManager /\ InitBufferPool /\ InitIndex /\ InitExecutor
  /\ iso_level \in [Txns -> IsolationLevels]
  /\ \A t \in Txns : t # 2 => iso_level[t] = "REPEATABLE_READ"

NextScan ==
  \/ ClientStep(1, {"IX", "X"}, {"X"}, {1}, Rows, {TRUE})
  \/ SeqScanInit(2, 1)
  \/ SeqScanInitWake(2)
  \/ SeqScanLock(2, 1)
  \/ SeqScanLockWake(2)
  \/ \E is_deleted \in BOOLEAN : SeqScanRead(2, 1, is_deleted)
  \/ SeqScanEnd
  \/ SpuriousWakeup(2)

SpecScan == InitScan /\ [][NextScan]_vars

(***************************************************************************)
(* C30.  Scans against a writer that has not committed.                    *)
(***************************************************************************)
\* Another transaction holds row rid of table oid in X.
HeldExclusive(t, oid, rid) == \E u \in Txns \ {t} : rid \in row_lock_set[u]["X"][oid]

\* Transaction t holds no table lock and no row lock.
HoldsNothing(t) ==
  /\ \A m \in LockModes : table_lock_set[t][m] = {}
  /\ \A m \in {"S", "X"}, oid \in Tables : row_lock_set[t][m][oid] = {}

C30_DirtyRead ==
  /\ iso_level[2] = "READ_UNCOMMITTED"
  /\ scan.pc = "done"
  /\ scan.dirty

\* A scan waits in LockRow for a row the writer holds in X.
C30_Blocked ==
  /\ iso_level[2] # "READ_UNCOMMITTED"
  /\ scan.pc = "lock"
  /\ HeldExclusive(2, 1, scan.rid)

(***************************************************************************)
(* SpecPriority: three transactions taking IS, IX, S and X on one table    *)
(* and releasing them, without the detector.                               *)
(***************************************************************************)
PriorityModes == {"IS", "IX", "S", "X"}

NextPriority == \E t \in Txns : TableClientStep(t, PriorityModes, {1})

SpecPriority == Init /\ [][NextPriority]_vars

(***************************************************************************)
(* C31.  A pending upgrade against the other waiters of its queue.         *)
(***************************************************************************)
\* Transaction u waits in LockTable for an upgrade on table oid.
UpgradeWaits(u, oid) ==
  ret[u] = "WAIT" /\ call[u].kind = "table" /\ call[u].oid = oid /\ call[u].upgrade

\* Transaction w waits in LockTable for a request on table oid that is no upgrade.
PlainWaits(w, oid) ==
  ret[w] = "WAIT" /\ call[w].kind = "table" /\ call[w].oid = oid /\ ~call[w].upgrade

\* The position of the request of t in the queue of table oid.
QueueIndex(t, oid) == FindRequest(table_lock_map[oid].request_queue, t, FALSE)

\* While u waits for an upgrade, the waiter w is granted a lock the upgrade conflicts with.
Overtakes(w, u, oid) ==
  /\ UpgradeWaits(u, oid) /\ PlainWaits(w, oid)
  /\ ~AreLocksCompatible(call[w].mode, call[u].mode)
  /\ ret'[w] = "TRUE"
  /\ ret'[u] = "WAIT"

\* C31: a pending upgrade has priority over every non-upgrading waiter of its queue,
\* wherever the two requests sit: no step grants such a waiter a lock that conflicts
\* with the upgrade while the upgrading request still waits.
C31_UpgradeFirst ==
  [][\A u \in Txns : \A w \in Txns \ {u}, oid \in Tables : ~Overtakes(w, u, oid)]_vars

\* The same for a waiter whose request sits behind the upgrading request.
C31_UpgradeFirstBehind ==
  [][\A u \in Txns : \A w \in Txns \ {u}, oid \in Tables :
       QueueIndex(u, oid) < QueueIndex(w, oid) => ~Overtakes(w, u, oid)]_vars

\* An upgrade and a plain request that conflicts with it wait on table 1, the plain
\* request behind the upgrading one.
C31_BothWaitBehind ==
  \E u \in Txns : \E w \in Txns \ {u} :
    /\ UpgradeWaits(u, 1) /\ PlainWaits(w, 1)
    /\ ~AreLocksCompatible(call[w].mode, call[u].mode)
    /\ QueueIndex(u, 1) < QueueIndex(w, 1)

\* The same with the plain request in front of the upgrading one.
C31_BothWaitInFront ==
  \E u \in Txns : \E w \in Txns \ {u} :
    /\ UpgradeWaits(u, 1) /\ PlainWaits(w, 1)
    /\ ~AreLocksCompatible(call[w].mode, call[u].mode)
    /\ QueueIndex(w, 1) < QueueIndex(u, 1)

(***************************************************************************)
(* C32.  UnlockRow with force = true.                                      *)
(***************************************************************************)
\* A step of UnlockRow(t, oid, rid, true) that changes the state of t.
ForcedUnlockChangesState(t, rid) ==
  /\ txn_state'[t] # txn_state[t]
  /\ \E oid \in Tables : UnlockRow(t, oid, rid, TRUE)

\* C32: UnlockRow with force = true never aborts the transaction and never changes its
\* state, whether it holds a lock on the row or not, and also on a row no transaction
\* ever locked.
C32_ForceKeepsState ==
  [][\A t \in Txns, rid \in Rows : ~ForcedUnlockChangesState(t, rid)]_vars

\* The same on the rows that have a queue in row_lock_map_.
C32_ForceKeepsStateQueued ==
  [][\A t \in Txns, rid \in Rows :
       row_lock_map[rid].present = "queue" => ~ForcedUnlockChangesState(t, rid)]_vars

(***************************************************************************)
(* C33.  The edges BuildGraph leaves in the wait-for graph.                *)
(***************************************************************************)
\* The edges of a waits_for_ map.
Edges(g) == {e \in Txns \X Txns : e[1] \in DOMAIN g /\ e[2] \in g[e[1]]}

\* Ti -> Tj for every queue of the map that holds a not-granted request of Ti and a
\* granted request of Tj, neither transaction aborted.
BlockedBy(map, ids) ==
  {e \in Txns \X Txns :
     /\ txn_state[e[1]] # "ABORTED" /\ txn_state[e[2]] # "ABORTED"
     /\ \E k \in ids :
          LET rq == map[k].request_queue
          IN /\ \E i \in 1..Len(rq) : rq[i].txn_id = e[1] /\ ~rq[i].granted
             /\ \E j \in 1..Len(rq) : rq[j].txn_id = e[2] /\ rq[j].granted}

\* C33: after BuildGraph the wait-for graph has the edge Ti -> Tj exactly when some
\* queue holds a not-granted request of Ti and a granted request of Tj, both not
\* aborted, wherever the two requests sit in the queue: the pass over the table queues
\* leaves exactly those edges, and the pass over the row queues adds exactly those of
\* the row queues.
C33_GraphEdges ==
  [][/\ (detector_pc = "sleep" /\ detector_pc' = "rows") =>
          Edges(waits_for') = BlockedBy(table_lock_map, Tables)
     /\ (detector_pc = "rows" /\ detector_pc' = "detect") =>
          Edges(waits_for') = Edges(waits_for) \cup BlockedBy(row_lock_map, Rows)]_vars

\* Every edge the pass over the table queues leaves leads from a waiting request to a
\* request in front of it in its queue.
C33_NoEdgeToLater ==
  [][(detector_pc = "sleep" /\ detector_pc' = "rows") =>
       \A e \in Edges(waits_for') :
         \E k \in Tables :
           LET rq == table_lock_map[k].request_queue
           IN \E i \in 1..Len(rq), j \in 1..Len(rq) :
                j < i /\ rq[i].txn_id = e[1] /\ ~rq[i].granted /\ rq[j].txn_id = e[2]]_vars

(***************************************************************************)
(* C34.  Waking the victim of the deadlock detector.                       *)
(***************************************************************************)
\* Transaction t was set to ABORTED while its lock call is blocked in cv_.wait.
AbortedWhileWaiting(t) == txn_state[t] = "ABORTED" /\ ret[t] = "WAIT"

\* C34: the detector broadcasts on every queue that holds a request of a victim within
\* the detection pass that aborted it: when the pass ends, the blocked call of every
\* victim has been notified.
C34_VictimNotified ==
  [][(detector_pc = "detect" /\ detector_pc' = "sleep") =>
       \A t \in Txns : AbortedWhileWaiting(t) => notified'[t]]_vars

\* The victim of an earlier pass is notified by the BuildGraph of the next pass.
C34_NotifiedNextPass ==
  [][(detector_pc = "rows" /\ detector_pc' = "detect") =>
       \A t \in Txns : AbortedWhileWaiting(t) => notified'[t]]_vars

\* A victim waits unnotified while the detector sleeps.
C34_VictimAsleep ==
  /\ detector_pc = "sleep"
  /\ \E t \in Txns : AbortedWhileWaiting(t) /\ ~notified[t]

(***************************************************************************)
(* C37.  The detector's victims and the cycles of the wait-for graph.      *)
(***************************************************************************)
\* C37: the deadlock detector sets a transaction to ABORTED only if the transaction lies
\* on a cycle of the wait-for graph; when the waiting transactions form no cycle, the
\* detector aborts none.
C37_VictimOnCycle ==
  [][\A v \in Txns :
       (/\ detector_pc = "detect" /\ waits_for' # waits_for
        /\ txn_state[v] # "ABORTED" /\ txn_state'[v] = "ABORTED")
         => OnACycle(waits_for, v)]_vars

\* The detector aborts a transaction of a wait-for graph without a cycle.
C37_AbortsWithoutCycle ==
  /\ detector_pc = "detect"
  /\ HasCycle(waits_for).found
  /\ \A u \in Txns : ~OnACycle(waits_for, u)

(***************************************************************************)
(* C35.  The latches of a descending GetValue.                             *)
(***************************************************************************)
\* The searching thread has read a page below the root and is about to fetch the child
\* it chose there.
BetweenRounds == reader.pc = "walk" /\ reader.page # root_page_id

\* C35: the read latch on a node is released only after the read latch on the chosen
\* child has been acquired, so the searching thread holds a latch on its path all the
\* way down: between two rounds of the descent no writer changes or frees the child the
\* thread has chosen.
C35_LatchCoupling ==
  [][BetweenRounds =>
       /\ reader.page \in DOMAIN bt_pages'
       /\ bt_pages'[reader.page] = bt_pages[reader.page]]_vars

(***************************************************************************)
(* C38.  The queue maps after a failed unlock.                             *)
(***************************************************************************)
\* C38: an UnlockTable or UnlockRow on a resource without a queue aborts the caller and
\* leaves the queue maps usable: no later LockTable, LockRow or row-coverage check
\* dereferences a queue pointer that is null.
C38_MapsUsable == ~crashed

\* The failed unlock itself aborts the caller with ATTEMPTED_UNLOCK_BUT_NO_LOCK_HELD.
C38_FailedUnlockAborts ==
  [][\A t \in Txns, oid \in Tables :
       (table_lock_map[oid].present = "absent" /\ table_lock_map'[oid].present # "absent"
        /\ ret'[t] # ret[t] /\ ret'[t] \notin {"TRUE", "WAIT"})
         => /\ txn_state'[t] = "ABORTED"
            /\ ret'[t] = "ATTEMPTED_UNLOCK_BUT_NO_LOCK_HELD"
            /\ table_lock_map'[oid].present = "null"]_vars

(***************************************************************************)
(* C39.  The lock sets of a transaction against the queues.                *)
(***************************************************************************)
\* The queue holds a granted request of t with mode m.
GrantedWith(rq, t, m) ==
  \E i \in 1..Len(rq) : rq[i].txn_id = t /\ rq[i].granted /\ rq[i].lock_mode = m

\* C39: whenever no lock-manager call of T is in progress, T's table lock set of mode m
\* holds oid exactly when the queue of oid holds a granted request of T with mode m, and
\* T's S / X row lock set holds rid exactly when the queue of rid holds a granted request
\* of T with that mode.
C39_LockSetsConsistent ==
  \A t \in Txns :
    ret[t] # "WAIT" =>
      /\ \A m \in LockModes, oid \in Tables :
           oid \in table_lock_set[t][m]
             <=> GrantedWith(table_lock_map[oid].request_queue, t, m)
      /\ \A m \in RowModes, rid \in Rows :
           (\E oid \in Tables : rid \in row_lock_set[t][m][oid])
             <=> GrantedWith(row_lock_map[rid].request_queue, t, m)

\* A transaction holds IX on table 1 and X, not S, on its row, while another transaction
\* has unlocked what it held.
C39_Witness ==
  \E t \in Txns :
    /\ ret[t] = "TRUE"
    /\ 1 \in row_lock_set[t]["X"][1]
    /\ 1 \notin row_lock_set[t]["S"][1]
    /\ table_lock_set[t]["IX"] = {1}
    /\ \E u \in Txns \ {t} : txn_state[u] = "SHRINKING" /\ HoldsNothing(u)

(***************************************************************************)
(* C40.  Begin() against End().                                            *)
(***************************************************************************)
\* An iterator: the page its guard holds and its index.  End() holds no page.
End == [page |-> INVALID_PAGE_ID, index |-> -1]

\* The iterator Begin() returns: End() when the descent finds no leaf, index 0 of the
\* leftmost leaf otherwise.
BeginIterator == IF Begin = INVALID_PAGE_ID THEN End ELSE [page |-> Begin, index |-> 0]

\* IndexIterator::operator==
IteratorEquals(a, b) ==
  IF a.index # b.index THEN FALSE
  ELSE IF a.index < 0 THEN TRUE
  ELSE a.page = b.page

\* C40: Begin() equals End() exactly when the tree holds no key, also on a tree whose
\* keys were all removed.
C40_BeginIsEnd == IteratorEquals(BeginIterator, End) <=> (DOMAIN bt_ref = {})

\* On a tree that never held a key, and on any tree that holds one, Begin() equals
\* End() exactly when the tree holds no key.
C40_BeginIsEndUnlessEmptied ==
  (root_page_id = INVALID_PAGE_ID \/ DOMAIN bt_ref # {}) =>
     (IteratorEquals(BeginIterator, End) <=> (DOMAIN bt_ref = {}))

(***************************************************************************)
(* C36.  Page latches of concurrent calls.  A thread runs one call at a    *)
(* time; a step runs the call from one FetchPageRead or FetchPageWrite     *)
(* that can block to the next, so a thread that cannot step waits for the  *)
(* latch of the page in want.  The header page's latch is taken first and  *)
(* dropped before the first tree page is fetched, and NewPageGuarded takes *)
(* no latch, so neither appears.  The calls run on the tree the Insert     *)
(* calls before them built; what a call would read from pages that another *)
(* call has rewritten (a page is full, a key is there, a page is half      *)
(* full) is a free choice at each step.                                    *)
(***************************************************************************)
\* The levels of the tree the concurrent calls run on.
LatchDepth == 4

\* The keys the tree is built from.
LatchKeys == 8

\* The pages the buffer pool holds for that tree.
LatchPages == 16

RECURSIVE LevelsUnder(_)
LevelsUnder(p) ==
  IF bt_pages[p].is_leaf THEN 1 ELSE 1 + LevelsUnder(ValueAt(bt_pages[p], 0))

Tall == root_page_id # INVALID_PAGE_ID /\ LevelsUnder(root_page_id) = LatchDepth

\* The pages whose write latch thread t holds.
WriteHeld(t) == {threads[t].ws[i] : i \in DOMAIN threads[t].ws} \cup threads[t].own

\* Page::RLatch by thread t returns: no thread holds the page's write latch.
CanRead(t, p) == \A u \in LatchThreads : p \notin WriteHeld(u)

\* Page::WLatch by thread t returns: no thread holds a latch of the page.
CanWrite(t, p) == \A u \in LatchThreads : p \notin WriteHeld(u) /\ threads[u].rd # p

Becomes(t, r) ==
  /\ threads' = [threads EXCEPT ![t] = r]
  /\ UNCHANGED <<bt_pages, bt_next_page_id, root_page_id, leaf_max_size, internal_max_size,
                 bt_ref, bt_ret, reader>>
  /\ UNCHANGED <<lmVars, bpmVars, scan>>

\* The tree is built by Insert calls of one thread, in ascending key order.
BuildTree ==
  /\ ~Tall
  /\ \E k \in 1..LatchKeys :
       /\ IF DOMAIN bt_ref = {} THEN k = 1 ELSE k <= Largest(DOMAIN bt_ref) + 1
       /\ Insert(k, ValueFor(k))
       /\ Capped(LatchPages)

\* A call starts: it reads the root page id under the header latch and drops the header
\* guard.
StartCall(t, op, key) ==
  /\ Tall
  /\ threads[t].op = "idle"
  /\ Becomes(t, [IdleThread EXCEPT
                   !.op = op, !.key = key, !.want = root_page_id,
                   !.pc = CASE op \in {"insert", "remove"} -> "descend"
                            [] op = "get" -> "walk"
                            [] OTHER -> "begin"])

\* DoMerge with page and parent taken off the write set: a leaf with a left sibling
\* lets its own latch go first, every other page fetches its sibling next.
MergeRound(r, page, parent, ws) ==
  LET par == bt_pages[parent]
      index == ValueIndex(par, page)
      base == [r EXCEPT !.ws = ws, !.own = {page, parent}, !.page = page,
                        !.parent = parent]
  IN IF index < 0 \/ GetSize(par) < 2 THEN IdleThread
     ELSE IF bt_pages[page].is_leaf /\ index > 0
       THEN [base EXCEPT !.pc = "drop", !.want = ValueAt(par, index - 1)]
     ELSE [base EXCEPT !.pc = "sibling",
                       !.want = IF index > 0 THEN ValueAt(par, index - 1)
                                ELSE ValueAt(par, index + 1)]

\* Insert and Remove: the write latch of the next page on the way down.
WriterDescend(t) ==
  LET r == threads[t]
      p == r.want
      n == bt_pages[p]
      ws1 == Append(r.ws, p)
  IN /\ r.pc = "descend"
     /\ CanWrite(t, p)
     /\ \/ \* the page is full and not the root: DoSplit lets its guard go, and the loop
           \* fetches the child of the parent again
           /\ r.ws # <<>> /\ ~r.split
           /\ \E safe \in BOOLEAN :
                Becomes(t, [r EXCEPT !.split = TRUE,
                                     !.ws = IF r.op = "insert"
                                              THEN ReleaseAncestors(r.ws, safe) ELSE r.ws])
        \/ \* Insert goes on with the page
           /\ r.op = "insert"
           /\ \E safe \in BOOLEAN :
                IF n.is_leaf THEN Becomes(t, IdleThread)
                ELSE Becomes(t, [r EXCEPT !.ws = ReleaseAncestors(ws1, safe),
                                          !.want = ValueAt(n, InternalSearch(n, r.key))])
        \/ \* Remove goes on with the page
           /\ r.op = "remove"
           /\ IF ~n.is_leaf
                THEN Becomes(t, [r EXCEPT !.ws = ws1,
                                          !.want = ValueAt(n, InternalSearch(n, r.key))])
                ELSE \E found \in BOOLEAN, half \in BOOLEAN :
                       IF ~found \/ half \/ r.ws = <<>> THEN Becomes(t, IdleThread)
                       ELSE Becomes(t, MergeRound(r, p, Back(r.ws), PopBack(r.ws)))

\* The left sibling fetched while the guard of the leaf is kept.
MergeDrop_Hold(t) ==
  LET r == threads[t]
  IN /\ r.pc = "drop"
     /\ Becomes(t, [r EXCEPT !.pc = "left"])

\* DoMerge, leaf with a left sibling: page_guard.Drop()
MergeDrop(t) ==
  LET r == threads[t]
  IN /\ r.pc = "drop"
     /\ Becomes(t, [r EXCEPT !.pc = "left", !.own = @ \ {r.page}])

\* DoMerge, leaf with a left sibling: the write latch of the left sibling
MergeLeft(t) ==
  LET r == threads[t]
  IN /\ r.pc = "left"
     /\ CanWrite(t, r.want)
     /\ Becomes(t, [r EXCEPT !.pc = "self", !.own = @ \cup {r.want}, !.want = r.page])

\* DoMerge after the siblings are latched: it returns, or the parent becomes the page
\* of the next round and the guards of this round let go.
AfterSibling(t, r) ==
  \E propagate \in BOOLEAN :
    IF ~propagate \/ r.ws = <<>> THEN Becomes(t, IdleThread)
    ELSE Becomes(t, MergeRound(r, r.parent, Back(r.ws), PopBack(r.ws)))

\* DoMerge, leaf with a left sibling: the write latch of the leaf itself again
MergeSelf(t) ==
  LET r == threads[t]
  IN /\ r.pc = "self"
     /\ CanWrite(t, r.want)
     /\ AfterSibling(t, r)

\* DoMerge, every other page: the write latch of the left sibling, or of the right one
\* when the page is the first child
MergeSibling(t) ==
  LET r == threads[t]
  IN /\ r.pc = "sibling"
     /\ CanWrite(t, r.want)
     /\ AfterSibling(t, r)

\* GetValue: one round of its loop, the read latch taken and let go
GetValueRound(t) ==
  LET r == threads[t]
      n == bt_pages[r.want]
  IN /\ r.pc = "walk"
     /\ CanRead(t, r.want)
     /\ IF n.is_leaf THEN Becomes(t, IdleThread)
        ELSE Becomes(t, [r EXCEPT !.want = ValueAt(n, InternalSearch(n, r.key))])

\* Begin(): one round of its loop, the read latch taken and let go
BeginRound(t) ==
  LET r == threads[t]
      n == bt_pages[r.want]
  IN /\ r.pc = "begin"
     /\ CanRead(t, r.want)
     /\ IF n.is_leaf THEN Becomes(t, [r EXCEPT !.pc = "open"])
        ELSE Becomes(t, [r EXCEPT !.want = ValueAt(n, 0)])

\* Begin(): the read guard of the leftmost leaf that the iterator keeps
BeginOpen(t) ==
  LET r == threads[t]
  IN /\ r.pc = "open"
     /\ CanRead(t, r.want)
     /\ Becomes(t, [r EXCEPT !.pc = "at", !.rd = r.want,
                             !.want = bt_pages[r.want].next_page_id])

\* IndexIterator::operator++ past the last slot of its leaf: the read latch of the next
\* leaf is taken before the guard of this leaf is let go; after the last leaf the
\* iterator holds no page.
IteratorNext(t) ==
  LET r == threads[t]
  IN /\ r.pc = "at"
     /\ IF r.want = INVALID_PAGE_ID THEN Becomes(t, IdleThread)
        ELSE /\ CanRead(t, r.want)
             /\ Becomes(t, [r EXCEPT !.rd = r.want,
                                     !.want = bt_pages[r.want].next_page_id])

LatchStep(t) ==
  \/ WriterDescend(t)
  \/ MergeDrop(t)
  \/ MergeLeft(t)
  \/ MergeSelf(t)
  \/ MergeSibling(t)
  \/ GetValueRound(t)
  \/ BeginRound(t)
  \/ BeginOpen(t)
  \/ IteratorNext(t)

\* The keys the concurrent calls are made with: the leaves on both sides of the middle
\* of the tree.
LatchFirstKey == 3

LatchLastKey == 5

\* The last thread reads (GetValue, Begin and the iterator), the others write.
WriterThreads == 1..(LatchThreadCount - 1)

NextLatch ==
  \/ BuildTree
  \/ \E t \in WriterThreads, k \in LatchFirstKey..LatchLastKey :
       \/ StartCall(t, "insert", k)
       \/ StartCall(t, "remove", k)
  \/ \E t \in LatchThreads \ WriterThreads :
       \/ \E k \in LatchFirstKey..LatchLastKey : StartCall(t, "get", k)
       \/ StartCall(t, "iter", SentinelKey)
  \/ \E t \in LatchThreads : LatchStep(t)

SpecLatch == InitTree({MinLeafMax}, {MinInternalMax}) /\ [][NextLatch]_vars

\* Thread t is at a fetch whose latch it cannot take.
LatchBlocked(t) ==
  LET r == threads[t]
  IN /\ r.pc \in {"descend", "left", "self", "sibling", "walk", "begin", "open", "at"}
     /\ r.want # INVALID_PAGE_ID
     /\ IF r.op \in {"insert", "remove"} THEN ~CanWrite(t, r.want) ELSE ~CanRead(t, r.want)

\* The threads that hold a latch thread t waits for.
LatchHolders(t) ==
  LET r == threads[t]
  IN {u \in LatchThreads :
        \/ r.want \in WriteHeld(u)
        \/ r.op \in {"insert", "remove"} /\ threads[u].rd = r.want}

LatchWaits == [t \in LatchThreads |-> IF LatchBlocked(t) THEN LatchHolders(t) ELSE {}]

\* The latches are fair: a thread whose fetch can return again and again is not passed
\* over for ever.
FairLatches == \A t \in LatchThreads : SF_vars(LatchStep(t))

SpecLatchFair == SpecLatch /\ FairLatches

\* Every call that started returns.
C36_CallsReturn == \A t \in LatchThreads : (threads[t].op # "idle") ~> (threads[t].op = "idle")

\* No set of threads wait for each other's page latches in a cycle.
NoLatchCycle ==
  \A t \in LatchThreads : t \notin ReachWithin(LatchWaits, LatchThreads, {t}, {})

\* Thread t, in DoMerge, takes the latch of a sibling or of the page itself.
TakesSiblingLatch(t) ==
  /\ threads[t].pc \in {"left", "self", "sibling"}
  /\ threads'[t] # threads[t]

\* Thread t holds the write latch of a child of its parent page that lies to the right
\* of the page it fetches.
HoldsRightOfFetched(t) ==
  LET r == threads[t]
      par == bt_pages[r.parent]
  IN \E q \in WriteHeld(t) :
       ValueIndex(par, q) >= 0 /\ ValueIndex(par, q) > ValueIndex(par, r.want)

====
